---- MODULE Spec2Model ----
(***************************************************************************)
(* Verification model of the multi-agent debate experiment code:           *)
(*   src/src/protocols/*.py   the four debate protocols                    *)
(*   src/src/agents/agent.py  DebaterAgent                                 *)
(*   src/src/experiment/runner.py  ExperimentRunner                        *)
(* Texts are sequences of one-character strings.  The literal markers      *)
(* "Final Answer:" and "INTERRUPT:" are abbreviated to two characters each *)
(* ("F:" and "I:"); like the originals, neither can overlap itself.        *)
(***************************************************************************)
EXTENDS Integers, Sequences, FiniteSets, TLC

VARIABLES
    \* harness of the pure functions
    fpc, text, prediction, ground_truth, ret,
    \* the backend (external): what it may answer, the call in flight, the
    \* calls issued during the current protocol run, the fragments yielded
    backend, pending, calls, yielded,
    \* one invocation of DebateProtocol.run: arguments, locals, outcome
    protocol_class, question, rounds, agents, agents_in,
    ppc, transcript, loc, outcome,
    \* ExperimentRunner.run_experiment: the dataset slice, the output file,
    \* the position in the run and its locals
    data, file, pc, idx, results, correct_count, total_count, processed_ids,
    \* history: the file before the first run, how each run ended, what the
    \* current run loaded, the result list of the last save a run completed,
    \* and that list at the last interruption
    file0, trail, loaded, persisted, at_crash,
    \* LLMProvider: which provider it is, its two usage counters and how
    \* often reset_usage was called
    provider, prompt_tokens, completion_tokens, resets,
    \* harness of the usage counters: the reports made since the last reset
    \* (or since construction) and the outcome of the last get_usage
    reports, usage,
    \* main: position in the driver, run_id, index into Protocols, the
    \* summary being collected and the summary file of the current run
    dpc, run_id, proto_idx, run_summary, summary_file

pureVars == <<fpc, text, prediction, ground_truth, ret>>
backendVars == <<backend, pending, calls, yielded>>
protoArgs == <<protocol_class, question, rounds, agents_in>>
protoVars == <<protocol_class, question, rounds, agents, agents_in,
               ppc, transcript, loc, outcome>>
runnerVars == <<data, file, pc, idx, results, correct_count, total_count,
                processed_ids, file0, trail, loaded, persisted, at_crash>>
counters == <<prompt_tokens, completion_tokens>>
usageVars == <<provider, prompt_tokens, completion_tokens, resets>>
meterVars == <<reports, usage>>
driverVars == <<dpc, run_id, proto_idx, run_summary, summary_file>>
vars == <<pureVars, backendVars, protoVars, runnerVars, usageVars, meterVars,
          driverVars>>

----------------------------------------------------------------------------
(* Bounds of the model *)

MaxTextLen == 6
MaxStrLen == 3
MaxRounds == 2
MaxAgents == 3
MaxFragments == 2
MaxItems == 2
MaxRuns == 2
MaxReports == 3
MaxResets == 2
MaxRunIds == 2
MaxDecisionLen == 4

----------------------------------------------------------------------------
(* Characters and texts *)

Whitespace == {" "}
Punctuation == {".", "?", "!", ":"}
SentenceEnd == {".", "?", "!"}

NoText == <<"-">>

Marker == <<"F", ":">>
InterruptMarker == <<"I", ":">>

RECURSIVE SeqsUpTo(_, _)
SeqsUpTo(S, n) ==
    IF n = 0 THEN {<<>>}
    ELSE LET shorter == SeqsUpTo(S, n - 1)
         IN  shorter \cup {Append(s, c) : s \in shorter, c \in S}

Tail0(s, k) == SubSeq(s, k, Len(s))

\* sub in text  (Python: the `in` operator on str)
OccursAt(s, sub, k) ==
    /\ k >= 1
    /\ k + Len(sub) - 1 <= Len(s)
    /\ SubSeq(s, k, k + Len(sub) - 1) = sub

Contains(s, sub) == \E k \in 1..(Len(s) + 1) : OccursAt(s, sub, k)

FirstIndex(s, sub) ==
    CHOOSE k \in 1..(Len(s) + 1) :
        /\ OccursAt(s, sub, k)
        /\ \A j \in 1..(k - 1) : ~OccursAt(s, sub, j)

\* str.split(sep): left-to-right scan, non-overlapping occurrences
RECURSIVE Split(_, _)
Split(s, sep) ==
    IF ~Contains(s, sep) THEN <<s>>
    ELSE LET k == FirstIndex(s, sep)
         IN  <<SubSeq(s, 1, k - 1)>> \o Split(Tail0(s, k + Len(sep)), sep)

\* str.split(sep, 1): at most one split
SplitOnce(s, sep) ==
    IF ~Contains(s, sep) THEN <<s>>
    ELSE LET k == FirstIndex(s, sep)
         IN  <<SubSeq(s, 1, k - 1), Tail0(s, k + Len(sep))>>

RECURSIVE LStrip(_, _)
LStrip(s, chars) ==
    IF s # <<>> /\ Head(s) \in chars THEN LStrip(Tail(s), chars) ELSE s

RECURSIVE RStrip(_, _)
RStrip(s, chars) ==
    IF s # <<>> /\ s[Len(s)] \in chars
    THEN RStrip(SubSeq(s, 1, Len(s) - 1), chars) ELSE s

\* str.strip(chars) / str.strip()
Strip(s, chars) == RStrip(LStrip(s, chars), chars)

LowerChar(c) ==
    CASE c = "A" -> "a"
      [] c = "B" -> "b"
      [] c = "F" -> "f"
      [] c = "I" -> "i"
      [] c = "N" -> "n"
      [] c = "O" -> "o"
      [] OTHER -> c

\* str.lower()
Lower(s) == [k \in 1..Len(s) |-> LowerChar(s[k])]

----------------------------------------------------------------------------
(* DebateProtocol._extract_final_answer *)

ExtractFirstPiece(t) ==
    IF Contains(t, Marker)
    THEN Strip(Split(t, Marker)[2], Whitespace)
    ELSE t

ExtractFinalAnswer(t) ==
    IF Contains(t, Marker)
    THEN Strip(Split(t, Marker)[Len(Split(t, Marker))], Whitespace)
    ELSE t

----------------------------------------------------------------------------
(* ExperimentRunner._evaluate_correctness *)

normalize_case_kept(s) == Strip(Strip(s, Punctuation), Whitespace)

normalize(s) == Strip(Strip(Lower(s), Punctuation), Whitespace)

EvaluateCorrectness(pred, gt) ==
    LET pred_norm == normalize(pred)
        gt_norm == normalize(gt)
    IN  IF gt_norm = <<>> THEN FALSE ELSE Contains(pred_norm, gt_norm)

----------------------------------------------------------------------------
(* The backend (LLMProvider), an external collaborator.  A call either     *)
(* returns one of the texts the backend may answer at that prompt, or      *)
(* raises.  generate_stream returns a lazy generator: the backend is asked *)
(* for the next fragment at each pull.                                     *)

RespFinalA == <<"F", ":", " ", "a">>
RespPlain == <<"a">>
RespNo == <<"N", "O">>
RespInterrupt == <<"I", ":", " ", "x">>

Rep(c, n) == [k \in 1..n |-> c]

LongChunk == 120
SentenceChunk == 40

FragShort == <<"a", ".">>
FragSentence == Rep("a", SentenceChunk) \o <<".">>
FragSpaced == Rep("a", SentenceChunk - 1) \o <<".", " ">>
FragLong == Rep("a", LongChunk + 1)
Fragments == {FragShort, FragSentence, FragSpaced, FragLong}

NoCall == [method |-> "none"]
NoOutcome == [kind |-> "none"]
BackendError == "BackendError"
ArityError == "ValueError"

Raised(e) == [kind |-> "raise", error |-> e]
Returned(v) == [kind |-> "return", value |-> v]

----------------------------------------------------------------------------
(* LLMProvider: token accounting *)

\* openai stands for the three providers that call LLMProvider.__init__
\* and report usage after every call; MockProvider does neither
ProviderNames == {"openai", "mock"}

\* a counter attribute that was never assigned
NoAttribute == 0 - 1

InitialCount(p) == IF p = "mock" THEN NoAttribute ELSE 0

\* what one call reports: (prompt tokens, completion tokens)
UsageReports == {<<0, 0>>, <<10, 5>>, <<7, 3>>}

NoUsage == [kind |-> "none"]
AttributeError == "AttributeError"

add_usage_Overwriting(prompt, completion) ==
    /\ prompt_tokens' = prompt
    /\ completion_tokens' = completion

add_usage(prompt, completion) ==
    /\ prompt_tokens' = prompt_tokens + prompt
    /\ completion_tokens' = completion_tokens + completion

get_usage ==
    [prompt_tokens |-> prompt_tokens,
     completion_tokens |-> completion_tokens,
     total_tokens |-> prompt_tokens + completion_tokens]

reset_usage ==
    /\ prompt_tokens' = 0
    /\ completion_tokens' = 0
    /\ resets' = resets + 1

\* generate and generate_stream report the call's usage once the response
\* (for a stream: its last fragment) has arrived
ReportUsage ==
    IF provider = "mock"
    THEN UNCHANGED counters
    ELSE \E u \in UsageReports : add_usage(u[1], u[2])

\* a provider as run_experiment or run get it from a test: MockProvider
UsageIdle ==
    /\ provider = "mock"
    /\ prompt_tokens = InitialCount(provider)
    /\ completion_tokens = InitialCount(provider)
    /\ resets = 0
    /\ reports = <<>>
    /\ usage = NoUsage

DriverIdle ==
    /\ dpc = "idle"
    /\ run_id = 0
    /\ proto_idx = 0
    /\ run_summary = <<>>
    /\ summary_file = [exists |-> FALSE]

----------------------------------------------------------------------------
(* DebaterAgent *)

DebaterAgent(name, system_prompt) ==
    [name |-> name, system_prompt |-> system_prompt, memory |-> <<>>]

\* the prompt speak and speak_stream send: context plus the persona reminder
FullPrompt(context, name) == [context |-> context, reminder |-> name]

GenerateCall(a, context) ==
    [method |-> "generate", agent |-> a, context |-> context,
     prompt |-> FullPrompt(context, agents[a].name),
     system_prompt |-> agents[a].system_prompt]

StreamCall(a, context) ==
    [method |-> "generate_stream", agent |-> a, context |-> context,
     prompt |-> FullPrompt(context, agents[a].name),
     system_prompt |-> agents[a].system_prompt]

Spoken_ResponseOnly(ags, a, context, response) ==
    [ags EXCEPT ![a].memory =
        Append(@, [role |-> "assistant", content |-> response])]

\* speak, after generate returned response: two entries are appended
Spoken(ags, a, context, response) ==
    [ags EXCEPT ![a].memory =
        @ \o <<[role |-> "user", content |-> context],
               [role |-> "assistant", content |-> response]>>]

listen_Overwriting(ags, a, content) ==
    [ags EXCEPT ![a].memory = <<[role |-> "user", content |-> content]>>]

listen(ags, a, content) ==
    [ags EXCEPT ![a].memory = Append(@, [role |-> "user", content |-> content])]

----------------------------------------------------------------------------
(* The four protocols: DebateProtocol.run *)

ProtocolNames ==
    {"SingleCoTProtocol", "SocraticDialogueProtocol",
     "AmericanCongressProtocol", "BritishParliamentaryProtocol"}

\* protocol classes a caller can pass besides the four: subclasses that
\* inherit run and carry another __name__
DerivedNames == {"DerivedCoTProtocol", "DerivedSocraticProtocol"}

\* the class whose run method a protocol class executes
RunOf(protocol) ==
    CASE protocol = "DerivedCoTProtocol" -> "SingleCoTProtocol"
      [] protocol = "DerivedSocraticProtocol" -> "SocraticDialogueProtocol"
      [] OTHER -> protocol

DefaultContext == <<>>

SpeakSites ==
    {"prompt",
     "student_prompt", "socrates_prompt", "student_reply_prompt", "summary_prompt",
     "aff_prompt", "neg_prompt", "aff_rebuttal_prompt", "neg_rebuttal_prompt",
     "congress_final_prompt",
     "opp_check_prompt", "gov_address_prompt", "opp_rebuttal_prompt",
     "british_final_prompt"}

Sites == SpeakSites \cup {"gov_prompt"}

FinalSites == {"prompt", "summary_prompt", "congress_final_prompt",
               "british_final_prompt"}

Prompt(template, args) == [template |-> template, args |-> args]

\* the agent that speaks at a site (position in the agents list)
SiteAgent(site) ==
    IF site \in {"socrates_prompt", "neg_prompt", "neg_rebuttal_prompt",
                 "opp_check_prompt", "opp_rebuttal_prompt"}
    THEN 2 ELSE 1

\* the prompt built at a site: the template and the values it interpolates
SitePrompt(site) ==
    CASE site = "prompt" -> Prompt(site, <<DefaultContext, question>>)
      [] site = "student_prompt" -> Prompt(site, <<DefaultContext, question>>)
      [] site = "socrates_prompt" -> Prompt(site, <<loc.current_context>>)
      [] site = "student_reply_prompt" ->
            Prompt(site, <<question, loc.socrates_response>>)
      [] site = "summary_prompt" -> Prompt(site, <<question, loc.current_context>>)
      [] site = "aff_prompt" -> Prompt(site, <<DefaultContext, question>>)
      [] site = "neg_prompt" -> Prompt(site, <<question, loc.aff_response>>)
      [] site = "aff_rebuttal_prompt" -> Prompt(site, <<question, loc.neg_response>>)
      [] site = "neg_rebuttal_prompt" -> Prompt(site, <<question, loc.aff_response>>)
      [] site = "congress_final_prompt" -> Prompt(site, <<question, transcript>>)
      [] site = "gov_prompt" -> Prompt(site, <<DefaultContext, question>>)
      [] site = "opp_check_prompt" ->
            Prompt(site, <<question, Strip(loc.current_chunk, Whitespace)>>)
      [] site = "gov_address_prompt" -> Prompt(site, <<question, loc.reason>>)
      [] site = "opp_rebuttal_prompt" -> Prompt(site, <<question, loc.full_speech>>)
      [] site = "british_final_prompt" -> Prompt(site, <<question, loc.opp_response>>)

Turn(role, content) == [role |-> role, content |-> content]

LocInit ==
    [i |-> 0,
     student_response |-> <<>>, socrates_response |-> <<>>,
     current_context |-> <<>>,
     aff_response |-> <<>>, neg_response |-> <<>>,
     stream |-> "none", script |-> <<>>,
     full_speech |-> <<>>, current_chunk |-> <<>>, interruption_count |-> 0,
     reason |-> <<>>, opp_response |-> <<>>]

frame == <<pureVars, backend, protoArgs, runnerVars, provider, resets,
           meterVars, driverVars>>

SpeakCall_LoggingFirst ==
    /\ ppc \in SpeakSites
    /\ pending = NoCall
    /\ pending' = GenerateCall(SiteAgent(ppc), SitePrompt(ppc))
    /\ calls' = Append(calls, pending')
    /\ agents' = listen(agents, SiteAgent(ppc), SitePrompt(ppc))
    /\ UNCHANGED <<frame, counters, yielded, ppc, transcript, loc, outcome>>

\* Agent.speak, first half: the prompt is sent to provider.generate
SpeakCall ==
    /\ ppc \in SpeakSites
    /\ pending = NoCall
    /\ pending' = GenerateCall(SiteAgent(ppc), SitePrompt(ppc))
    /\ calls' = Append(calls, pending')
    /\ UNCHANGED <<frame, counters, yielded, agents, ppc, transcript, loc, outcome>>

BackendRaises_Retried ==
    /\ pending # NoCall
    /\ pending' = NoCall
    /\ UNCHANGED <<frame, counters, calls, yielded, agents, transcript, loc, outcome, ppc>>

\* a backend call raises: speak appends nothing, and run has no handler
BackendRaises ==
    /\ pending # NoCall
    /\ pending' = NoCall
    /\ outcome' = Raised(BackendError)
    /\ ppc' = "raised"
    /\ UNCHANGED <<frame, counters, calls, yielded, agents, transcript, loc>>

\* generate returned response r at site: the second half of Agent.speak
Responds(site, r) ==
    /\ ppc = site
    /\ pending # NoCall
    /\ r \in backend[site]
    /\ pending' = NoCall
    /\ ReportUsage

Fail(e) ==
    /\ outcome' = Raised(e)
    /\ ppc' = "raised"
    /\ UNCHANGED <<frame, counters, backendVars, agents, transcript, loc>>

Begin(site) ==
    /\ ppc' = site
    /\ UNCHANGED <<frame, counters, backendVars, agents, transcript, loc, outcome>>

(* SingleCoTProtocol.run *)

SingleCoT_Entry ==
    /\ ppc = "entry"
    /\ RunOf(protocol_class) = "SingleCoTProtocol"
    /\ IF Len(agents) # 1 THEN Fail(ArityError) ELSE Begin("prompt")

SingleCoT_Response_Unextracted ==
    \E response \in backend["prompt"] :
        /\ Responds("prompt", response)
        /\ agents' = Spoken(agents, 1, pending.context, response)
        /\ transcript' = <<Turn(agents[1].name, response)>>
        /\ outcome' = Returned(
              [protocol |-> "SingleCoT", question |-> question,
               transcript |-> transcript',
               final_answer |-> response])
        /\ ppc' = "returned"
        /\ UNCHANGED <<frame, calls, yielded, loc>>

SingleCoT_Response ==
    \E response \in backend["prompt"] :
        /\ Responds("prompt", response)
        /\ agents' = Spoken(agents, 1, pending.context, response)
        /\ transcript' = <<Turn(agents[1].name, response)>>
        /\ outcome' = Returned(
              [protocol |-> "SingleCoT", question |-> question,
               transcript |-> transcript',
               final_answer |-> ExtractFinalAnswer(response)])
        /\ ppc' = "returned"
        /\ UNCHANGED <<frame, calls, yielded, loc>>

(* SocraticDialogueProtocol.run *)

Socratic_Entry ==
    /\ ppc = "entry"
    /\ RunOf(protocol_class) = "SocraticDialogueProtocol"
    /\ IF Len(agents) # 2 THEN Fail(ArityError) ELSE Begin("student_prompt")

Socratic_StudentInitial_AtLeastOnce ==
    \E student_response \in backend["student_prompt"] :
        /\ Responds("student_prompt", student_response)
        /\ agents' = Spoken(agents, 1, pending.context, student_response)
        /\ transcript' = Append(transcript, Turn(agents[1].name, student_response))
        /\ loc' = [loc EXCEPT
              !.student_response = student_response,
              !.current_context = <<"Question: ", question,
                                    "Student's Answer:", student_response>>,
              !.i = 0]
        /\ ppc' = "socrates_prompt"
        /\ UNCHANGED <<frame, calls, yielded, outcome>>

Socratic_StudentInitial ==
    \E student_response \in backend["student_prompt"] :
        /\ Responds("student_prompt", student_response)
        /\ agents' = Spoken(agents, 1, pending.context, student_response)
        /\ transcript' = Append(transcript, Turn(agents[1].name, student_response))
        /\ loc' = [loc EXCEPT
              !.student_response = student_response,
              !.current_context = <<"Question: ", question,
                                    "Student's Answer:", student_response>>,
              !.i = 0]
        /\ ppc' = IF 0 < rounds THEN "socrates_prompt" ELSE "summary_prompt"
        /\ UNCHANGED <<frame, calls, yielded, outcome>>

Socratic_Question_Unheard ==
    \E socrates_response \in backend["socrates_prompt"] :
        /\ Responds("socrates_prompt", socrates_response)
        /\ agents' = Spoken(agents, 2, pending.context, socrates_response)
        /\ transcript' = Append(transcript, Turn(agents[2].name, socrates_response))
        /\ loc' = [loc EXCEPT
              !.socrates_response = socrates_response,
              !.current_context = @ \o <<"Socrates: ", socrates_response>>]
        /\ ppc' = "student_reply_prompt"
        /\ UNCHANGED <<frame, calls, yielded, outcome>>

Socratic_Question ==
    \E socrates_response \in backend["socrates_prompt"] :
        /\ Responds("socrates_prompt", socrates_response)
        /\ agents' = listen(Spoken(agents, 2, pending.context, socrates_response),
                            1, socrates_response)
        /\ transcript' = Append(transcript, Turn(agents[2].name, socrates_response))
        /\ loc' = [loc EXCEPT
              !.socrates_response = socrates_response,
              !.current_context = @ \o <<"Socrates: ", socrates_response>>]
        /\ ppc' = "student_reply_prompt"
        /\ UNCHANGED <<frame, calls, yielded, outcome>>

Socratic_Revision ==
    \E student_response \in backend["student_reply_prompt"] :
        /\ Responds("student_reply_prompt", student_response)
        /\ agents' = listen(Spoken(agents, 1, pending.context, student_response),
                            2, student_response)
        /\ transcript' = Append(transcript, Turn(agents[1].name, student_response))
        /\ loc' = [loc EXCEPT
              !.student_response = student_response,
              !.current_context = @ \o <<"Student: ", student_response>>,
              !.i = @ + 1]
        /\ ppc' = IF loc.i + 1 < rounds THEN "socrates_prompt" ELSE "summary_prompt"
        /\ UNCHANGED <<frame, calls, yielded, outcome>>

Socratic_Final ==
    \E final_response \in backend["summary_prompt"] :
        /\ Responds("summary_prompt", final_response)
        /\ agents' = Spoken(agents, 1, pending.context, final_response)
        /\ transcript' = Append(transcript, Turn(agents[1].name, final_response))
        /\ outcome' = Returned(
              [protocol |-> "SocraticDialogue", question |-> question,
               transcript |-> transcript',
               final_answer |-> ExtractFinalAnswer(final_response)])
        /\ ppc' = "returned"
        /\ UNCHANGED <<frame, calls, yielded, loc>>

(* AmericanCongressProtocol.run *)

Congress_Entry ==
    /\ ppc = "entry"
    /\ RunOf(protocol_class) = "AmericanCongressProtocol"
    /\ IF Len(agents) # 2 THEN Fail(ArityError) ELSE Begin("aff_prompt")

Congress_AffOpening ==
    \E aff_response \in backend["aff_prompt"] :
        /\ Responds("aff_prompt", aff_response)
        /\ agents' = listen(Spoken(agents, 1, pending.context, aff_response),
                            2, aff_response)
        /\ transcript' = Append(transcript, Turn(agents[1].name, aff_response))
        /\ loc' = [loc EXCEPT !.aff_response = aff_response]
        /\ ppc' = "neg_prompt"
        /\ UNCHANGED <<frame, calls, yielded, outcome>>

Congress_NegOpening_ExtraRound ==
    \E neg_response \in backend["neg_prompt"] :
        /\ Responds("neg_prompt", neg_response)
        /\ agents' = listen(Spoken(agents, 2, pending.context, neg_response),
                            1, neg_response)
        /\ transcript' = Append(transcript, Turn(agents[2].name, neg_response))
        /\ loc' = [loc EXCEPT !.neg_response = neg_response, !.i = 0]
        /\ ppc' = IF 0 < rounds THEN "aff_rebuttal_prompt"
                  ELSE "congress_final_prompt"
        /\ UNCHANGED <<frame, calls, yielded, outcome>>

Congress_NegOpening ==
    \E neg_response \in backend["neg_prompt"] :
        /\ Responds("neg_prompt", neg_response)
        /\ agents' = listen(Spoken(agents, 2, pending.context, neg_response),
                            1, neg_response)
        /\ transcript' = Append(transcript, Turn(agents[2].name, neg_response))
        /\ loc' = [loc EXCEPT !.neg_response = neg_response, !.i = 0]
        /\ ppc' = IF 0 < rounds - 1 THEN "aff_rebuttal_prompt"
                  ELSE "congress_final_prompt"
        /\ UNCHANGED <<frame, calls, yielded, outcome>>

Congress_AffRebuttal ==
    \E aff_response \in backend["aff_rebuttal_prompt"] :
        /\ Responds("aff_rebuttal_prompt", aff_response)
        /\ agents' = listen(Spoken(agents, 1, pending.context, aff_response),
                            2, aff_response)
        /\ transcript' = Append(transcript, Turn(agents[1].name, aff_response))
        /\ loc' = [loc EXCEPT !.aff_response = aff_response]
        /\ ppc' = "neg_rebuttal_prompt"
        /\ UNCHANGED <<frame, calls, yielded, outcome>>

Congress_NegRebuttal ==
    \E neg_response \in backend["neg_rebuttal_prompt"] :
        /\ Responds("neg_rebuttal_prompt", neg_response)
        /\ agents' = listen(Spoken(agents, 2, pending.context, neg_response),
                            1, neg_response)
        /\ transcript' = Append(transcript, Turn(agents[2].name, neg_response))
        /\ loc' = [loc EXCEPT !.neg_response = neg_response, !.i = @ + 1]
        /\ ppc' = IF loc.i + 1 < rounds - 1 THEN "aff_rebuttal_prompt"
                  ELSE "congress_final_prompt"
        /\ UNCHANGED <<frame, calls, yielded, outcome>>

Congress_Final ==
    \E final_response \in backend["congress_final_prompt"] :
        /\ Responds("congress_final_prompt", final_response)
        /\ agents' = Spoken(agents, 1, pending.context, final_response)
        /\ transcript' = Append(transcript, Turn(agents[1].name, final_response))
        /\ outcome' = Returned(
              [protocol |-> "AmericanCongress", question |-> question,
               transcript |-> transcript',
               final_answer |-> ExtractFinalAnswer(final_response)])
        /\ ppc' = "returned"
        /\ UNCHANGED <<frame, calls, yielded, loc>>

(* BritishParliamentaryProtocol.run *)

EndsWithAny(s, chars) == s # <<>> /\ s[Len(s)] \in chars

CheckDue_Untrimmed(current_chunk) ==
    \/ Len(current_chunk) > LongChunk
    \/ /\ EndsWithAny(current_chunk, SentenceEnd)
       /\ Len(current_chunk) > SentenceChunk

\* the interruption check of the streaming loop
CheckDue(current_chunk) ==
    \/ Len(current_chunk) > LongChunk
    \/ /\ EndsWithAny(Strip(current_chunk, Whitespace), SentenceEnd)
       /\ Len(current_chunk) > SentenceChunk

British_Entry_NoArityCheck ==
    /\ ppc = "entry"
    /\ RunOf(protocol_class) = "BritishParliamentaryProtocol"
    /\ Begin("gov_prompt")

British_Entry ==
    /\ ppc = "entry"
    /\ RunOf(protocol_class) = "BritishParliamentaryProtocol"
    /\ IF Len(agents) # 2 THEN Fail(ArityError) ELSE Begin("gov_prompt")

\* gov.speak_stream(gov_prompt): the generator is created, nothing is pulled
\* yet and the Government's memory is not touched
British_OpenStream ==
    /\ ppc = "gov_prompt"
    /\ \E script \in backend["gov_prompt"] :
          loc' = [loc EXCEPT !.stream = "open", !.script = script,
                             !.full_speech = <<>>, !.current_chunk = <<>>,
                             !.interruption_count = 0]
    /\ calls' = Append(calls, StreamCall(1, SitePrompt("gov_prompt")))
    /\ transcript' = Append(transcript,
          Turn("System", <<"Government (", agents[1].name, ") starts speaking.">>))
    /\ ppc' = "for_token"
    /\ UNCHANGED <<frame, counters, pending, yielded, agents, outcome>>

British_Pull_Eager ==
    /\ ppc \in {"for_token", "opp_check_prompt", "gov_address_prompt"}
    /\ pending.method # "next"
    /\ loc.script # <<>>
    /\ pending' = [method |-> "next", agent |-> 1]
    /\ ppc' = "for_token"
    /\ UNCHANGED <<frame, counters, calls, yielded, agents, transcript, loc, outcome>>

\* for token in stream: the next fragment is requested
British_Pull ==
    /\ ppc = "for_token"
    /\ pending = NoCall
    /\ pending' = [method |-> "next", agent |-> 1]
    /\ UNCHANGED <<frame, counters, calls, yielded, agents, ppc, transcript, loc, outcome>>

British_Token ==
    /\ ppc = "for_token"
    /\ pending # NoCall
    /\ loc.script # <<>>
    /\ LET token == Head(loc.script)
           full_speech == loc.full_speech \o token
           current_chunk == loc.current_chunk \o token
       IN  /\ loc' = [loc EXCEPT !.script = Tail(@),
                                 !.full_speech = full_speech,
                                 !.current_chunk = current_chunk]
           /\ yielded' = Append(yielded, token)
           /\ ppc' = IF CheckDue(current_chunk) THEN "opp_check_prompt"
                     ELSE "for_token"
    /\ pending' = NoCall
    /\ UNCHANGED <<frame, counters, calls, agents, transcript, outcome>>

British_StreamEnd_Committed ==
    /\ ppc = "for_token"
    /\ pending # NoCall
    /\ loc.script = <<>>
    /\ loc' = [loc EXCEPT !.stream = "exhausted"]
    /\ transcript' = Append(transcript,
          Turn(agents[1].name, <<"Full Speech: ">> \o loc.full_speech))
    /\ agents' = Spoken(agents, 1, calls[1].context, loc.full_speech)
    /\ ppc' = "opp_rebuttal_prompt"
    /\ pending' = NoCall
    /\ ReportUsage
    /\ UNCHANGED <<frame, calls, yielded, outcome>>

British_StreamEnd_LastChunk ==
    /\ ppc = "for_token"
    /\ pending # NoCall
    /\ loc.script = <<>>
    /\ loc' = [loc EXCEPT !.stream = "exhausted"]
    /\ transcript' = Append(transcript,
          Turn(agents[1].name, <<"Full Speech: ">> \o loc.current_chunk))
    /\ ppc' = "opp_rebuttal_prompt"
    /\ pending' = NoCall
    /\ ReportUsage
    /\ UNCHANGED <<frame, calls, yielded, agents, outcome>>

British_StreamEnd ==
    /\ ppc = "for_token"
    /\ pending # NoCall
    /\ loc.script = <<>>
    /\ loc' = [loc EXCEPT !.stream = "exhausted"]
    /\ transcript' = Append(transcript,
          Turn(agents[1].name, <<"Full Speech: ">> \o loc.full_speech))
    /\ ppc' = "opp_rebuttal_prompt"
    /\ pending' = NoCall
    /\ ReportUsage
    /\ UNCHANGED <<frame, calls, yielded, agents, outcome>>

British_Decision_AlwaysCounted ==
    \E decision \in backend["opp_check_prompt"] :
        /\ Responds("opp_check_prompt", decision)
        /\ agents' = Spoken(agents, 2, pending.context, decision)
        /\ IF Contains(decision, InterruptMarker)
           THEN LET reason == Strip(SplitOnce(decision, InterruptMarker)[2],
                                    Whitespace)
                IN  /\ transcript' = Append(transcript,
                          Turn(agents[2].name, <<"POI: ">> \o reason))
                    /\ loc' = [loc EXCEPT !.reason = reason,
                                          !.interruption_count = @ + 1]
                    /\ ppc' = "gov_address_prompt"
           ELSE /\ loc' = [loc EXCEPT !.current_chunk = <<>>,
                                      !.interruption_count = @ + 1]
                /\ ppc' = "for_token"
                /\ UNCHANGED transcript
        /\ UNCHANGED <<frame, calls, yielded, outcome>>

British_Decision_Prefix ==
    \E decision \in backend["opp_check_prompt"] :
        /\ Responds("opp_check_prompt", decision)
        /\ agents' = Spoken(agents, 2, pending.context, decision)
        /\ IF OccursAt(decision, InterruptMarker, 1)
           THEN LET reason == Strip(SplitOnce(decision, InterruptMarker)[2],
                                    Whitespace)
                IN  /\ transcript' = Append(transcript,
                          Turn(agents[2].name, <<"POI: ">> \o reason))
                    /\ loc' = [loc EXCEPT !.reason = reason,
                                          !.interruption_count = @ + 1]
                    /\ ppc' = "gov_address_prompt"
           ELSE /\ loc' = [loc EXCEPT !.current_chunk = <<>>]
                /\ ppc' = "for_token"
                /\ UNCHANGED transcript
        /\ UNCHANGED <<frame, calls, yielded, outcome>>

British_Decision_Public ==
    \E decision \in backend["opp_check_prompt"] :
        /\ Responds("opp_check_prompt", decision)
        /\ agents' = Spoken(agents, 2, pending.context, decision)
        /\ IF Contains(decision, InterruptMarker)
           THEN LET reason == Strip(SplitOnce(decision, InterruptMarker)[2],
                                    Whitespace)
                IN  /\ transcript' = Append(transcript,
                          Turn(agents[2].name, <<"POI: ">> \o reason))
                    /\ loc' = [loc EXCEPT !.reason = reason,
                                          !.interruption_count = @ + 1]
                    /\ ppc' = "gov_address_prompt"
           ELSE /\ loc' = [loc EXCEPT !.current_chunk = <<>>]
                /\ ppc' = "for_token"
                /\ transcript' = Append(transcript,
                      Turn(agents[2].name, decision))
        /\ UNCHANGED <<frame, calls, yielded, outcome>>

British_Decision ==
    \E decision \in backend["opp_check_prompt"] :
        /\ Responds("opp_check_prompt", decision)
        /\ agents' = Spoken(agents, 2, pending.context, decision)
        /\ IF Contains(decision, InterruptMarker)
           THEN LET reason == Strip(SplitOnce(decision, InterruptMarker)[2],
                                    Whitespace)
                IN  /\ transcript' = Append(transcript,
                          Turn(agents[2].name, <<"POI: ">> \o reason))
                    /\ loc' = [loc EXCEPT !.reason = reason,
                                          !.interruption_count = @ + 1]
                    /\ ppc' = "gov_address_prompt"
           ELSE /\ loc' = [loc EXCEPT !.current_chunk = <<>>]
                /\ ppc' = "for_token"
                /\ UNCHANGED transcript
        /\ UNCHANGED <<frame, calls, yielded, outcome>>

British_Address_Unrecorded ==
    \E gov_response \in backend["gov_address_prompt"] :
        /\ Responds("gov_address_prompt", gov_response)
        /\ agents' = Spoken(agents, 1, pending.context, gov_response)
        /\ loc' = [loc EXCEPT !.current_chunk = <<>>]
        /\ ppc' = "for_token"
        /\ UNCHANGED <<frame, calls, yielded, outcome, transcript>>

British_Address ==
    \E gov_response \in backend["gov_address_prompt"] :
        /\ Responds("gov_address_prompt", gov_response)
        /\ agents' = Spoken(agents, 1, pending.context, gov_response)
        /\ transcript' = Append(transcript,
              Turn(agents[1].name, <<"Response to POI: ">> \o gov_response))
        /\ loc' = [loc EXCEPT !.current_chunk = <<>>]
        /\ ppc' = "for_token"
        /\ UNCHANGED <<frame, calls, yielded, outcome>>

British_Rebuttal ==
    \E opp_response \in backend["opp_rebuttal_prompt"] :
        /\ Responds("opp_rebuttal_prompt", opp_response)
        /\ agents' = Spoken(agents, 2, pending.context, opp_response)
        /\ transcript' = Append(transcript, Turn(agents[2].name, opp_response))
        /\ loc' = [loc EXCEPT !.opp_response = opp_response]
        /\ ppc' = "british_final_prompt"
        /\ UNCHANGED <<frame, calls, yielded, outcome>>

British_Final_FromRebuttal ==
    \E final_response \in backend["british_final_prompt"] :
        /\ Responds("british_final_prompt", final_response)
        /\ agents' = Spoken(agents, 1, pending.context, final_response)
        /\ transcript' = Append(transcript, Turn(agents[1].name, final_response))
        /\ outcome' = Returned(
              [protocol |-> "BritishParliamentary", question |-> question,
               transcript |-> transcript',
               interruptions |-> loc.interruption_count,
               final_answer |-> ExtractFinalAnswer(loc.opp_response)])
        /\ ppc' = "returned"
        /\ UNCHANGED <<frame, calls, yielded, loc>>

British_Final ==
    \E final_response \in backend["british_final_prompt"] :
        /\ Responds("british_final_prompt", final_response)
        /\ agents' = Spoken(agents, 1, pending.context, final_response)
        /\ transcript' = Append(transcript, Turn(agents[1].name, final_response))
        /\ outcome' = Returned(
              [protocol |-> "BritishParliamentary", question |-> question,
               transcript |-> transcript',
               interruptions |-> loc.interruption_count,
               final_answer |-> ExtractFinalAnswer(final_response)])
        /\ ppc' = "returned"
        /\ UNCHANGED <<frame, calls, yielded, loc>>

ProtocolStep ==
    \/ SpeakCall
    \/ BackendRaises
    \/ SingleCoT_Entry
    \/ SingleCoT_Response
    \/ Socratic_Entry
    \/ Socratic_StudentInitial
    \/ Socratic_Question
    \/ Socratic_Revision
    \/ Socratic_Final
    \/ Congress_Entry
    \/ Congress_AffOpening
    \/ Congress_NegOpening
    \/ Congress_AffRebuttal
    \/ Congress_NegRebuttal
    \/ Congress_Final
    \/ British_Entry
    \/ British_OpenStream
    \/ British_Pull
    \/ British_Token
    \/ British_StreamEnd
    \/ British_Decision
    \/ British_Address
    \/ British_Rebuttal
    \/ British_Final

----------------------------------------------------------------------------
(* The agent rosters ExperimentRunner.run_experiment builds *)

\* num_agents when the caller passes none
DefaultNumAgents == 2

roles == <<"Agent A", "Agent B", "Agent C">>

Roster_Generic(protocol) ==
    [i \in 1..DefaultNumAgents |->
        DebaterAgent(roles[i], "You are " \o roles[i] \o ".")]

Roster(protocol) ==
    CASE protocol = "SingleCoTProtocol" ->
            <<DebaterAgent("Solver", "You are a helpful assistant.")>>
      [] protocol = "SocraticDialogueProtocol" ->
            <<DebaterAgent("Student", "You are a student trying to answer questions."),
              DebaterAgent("Socrates", "You are Socrates. Ask probing questions.")>>
      [] protocol = "AmericanCongressProtocol" ->
            <<DebaterAgent("Affirmative", "You are the Affirmative side."),
              DebaterAgent("Negative", "You are the Negative side.")>>
      [] protocol = "BritishParliamentaryProtocol" ->
            <<DebaterAgent("Government", "You are the Government."),
              DebaterAgent("Opposition", "You are the Opposition.")>>
      [] OTHER ->
            [i \in 1..DefaultNumAgents |->
                DebaterAgent(roles[i], "You are " \o roles[i] \o ".")]

\* rounds when the caller passes none
DefaultRounds(protocol) ==
    IF protocol = "SocraticDialogueProtocol" THEN 1 ELSE 2

----------------------------------------------------------------------------
(* Inputs of a direct call of run *)

Replies == {RespFinalA, RespNo, RespInterrupt}

\* the finite fragment streams generate_stream may deliver
GovScripts == SeqsUpTo(Fragments, MaxFragments)

\* a scripted Opposition: at every check it answers NO, or INTERRUPT: x, or
\* any of the replies
OppositionScripts == {{RespNo}, {RespInterrupt}, Replies}

\* a backend that streams script and decides the checks by decisions
ProtoBackend(script, decisions) ==
    [site \in Sites |->
        CASE site = "gov_prompt" -> {script}
          [] site = "opp_check_prompt" -> decisions
          [] OTHER -> Replies]

ProtoBackends(protocol) ==
    IF protocol = "BritishParliamentaryProtocol"
    THEN {ProtoBackend(script, decisions) :
             script \in GovScripts, decisions \in OppositionScripts}
    ELSE {ProtoBackend(<<>>, Replies)}

PriorTurn == [role |-> "user", content |-> RespPlain]

ExtraAgents ==
    [k \in 1..(MaxAgents + 1) |-> DebaterAgent("Agent", "You are an agent.")]

AgentLists(protocol) ==
    {[k \in 1..n |-> [(Roster(protocol) \o ExtraAgents)[k] EXCEPT !.memory = m]] :
        n \in 0..MaxAgents, m \in {<<>>, <<PriorTurn>>}}

RoundsOf(protocol) ==
    IF protocol \in {"SocraticDialogueProtocol", "AmericanCongressProtocol"}
    THEN (0 - 1)..MaxRounds
    ELSE {DefaultRounds(protocol)}

PureIdle ==
    /\ fpc = "idle"
    /\ text = NoText
    /\ prediction = NoText
    /\ ground_truth = NoText
    /\ ret = NoText

ProtoIdle ==
    /\ pending = NoCall
    /\ calls = <<>>
    /\ yielded = <<>>
    /\ question = "none"
    /\ rounds = 0
    /\ agents = <<>>
    /\ agents_in = <<>>
    /\ ppc = "idle"
    /\ transcript = <<>>
    /\ loc = LocInit
    /\ outcome = NoOutcome


----------------------------------------------------------------------------
(* ExperimentRunner: the output file and run_experiment *)

DatasetName == "hotpot_qa"

\* the items DataLoader.load yields (question text and ground truth)
Items ==
    {[question |-> "q1", answer |-> <<"a">>],
     [question |-> "q2", answer |-> <<"b">>]}

Datasets == SeqsUpTo(Items, MaxItems)

\* what the scripted backend answers at each prompt in the runner's runs
RunnerBackend ==
    [site \in Sites |->
        CASE site \in FinalSites -> {RespFinalA}
          [] site = "opp_check_prompt" -> {RespInterrupt}
          [] site = "gov_prompt" -> {<<FragSentence>>}
          [] OTHER -> {RespPlain}]

(* The file at the output path.  A JSON value is a list, a dict (its        *)
(* members a record) or anything else; a list entry is a dict (a record)    *)
(* or a scalar.                                                             *)

NoFile == [exists |-> FALSE]
Undecodable == [exists |-> TRUE, decodable |-> FALSE]
JsonFile(json) == [exists |-> TRUE, decodable |-> TRUE, json |-> json]

JsonList(items) == [type |-> "list", items |-> items]
JsonDict(members) == [type |-> "dict", members |-> members]
JsonScalar == [json_scalar |-> 1]

IsDict(r) == "json_scalar" \notin DOMAIN r

\* dict.get(key, default)
Get(d, key, default) == IF key \in DOMAIN d THEN d[key] ELSE default

Accuracy(correct, total) ==
    IF total > 0 THEN <<correct, total>> ELSE <<0, 1>>

\* what _save_results dumps (the timestamp is left out)
OutputData(protocol_name, dataset_name, rs, correct, total) ==
    JsonDict([metadata |-> [protocol |-> protocol_name,
                            dataset |-> dataset_name,
                            accuracy |-> Accuracy(correct, total),
                            correct_count |-> correct,
                            total_count |-> total],
              results |-> rs])

Fresh == [ok |-> TRUE, results |-> <<>>, correct_count |-> 0, total_count |-> 0]

\* question text as the dedupe key: r.get("question") for every loaded r
ProcessedIdsNone(rs) == {}

ProcessedIds(rs) == {Get(rs[k], "question", "None") : k \in 1..Len(rs)}

\* the resume block of run_experiment: ok is FALSE when an exception other
\* than JSONDecodeError escapes it
LoadExisting(f) ==
    IF ~f.exists THEN Fresh
    ELSE IF ~f.decodable THEN Fresh
    ELSE LET existing_data == f.json
         IN  IF existing_data.type = "list"
             THEN [ok |-> \A k \in 1..Len(existing_data.items) :
                              IsDict(existing_data.items[k]),
                   results |-> existing_data.items,
                   correct_count |-> 0, total_count |-> 0]
             ELSE IF existing_data.type = "dict"
                     /\ "results" \in DOMAIN existing_data.members
             THEN LET m == existing_data.members
                      has_meta == "metadata" \in DOMAIN m
                  IN  [ok |-> \A k \in 1..Len(m.results) : IsDict(m.results[k]),
                       results |-> m.results,
                       correct_count |->
                           IF has_meta THEN Get(m.metadata, "correct_count", 0)
                           ELSE 0,
                       total_count |->
                           IF has_meta THEN Get(m.metadata, "total_count", 0)
                           ELSE 0]
             ELSE Fresh

\* the result list a file holds, when it can be loaded
ResultsIn(f) == IF LoadExisting(f).ok THEN LoadExisting(f).results ELSE <<>>

LegacyEntry ==
    [protocol |-> "SingleCoT", question |-> "q1",
     transcript |-> <<Turn("Solver", RespFinalA)>>,
     final_answer |-> <<"a">>, ground_truth |-> <<"a">>, is_correct |-> TRUE]

InitialFiles ==
    {NoFile,
     JsonFile(JsonDict([metadata |-> [correct_count |-> 1, total_count |-> 1]])),
     JsonFile(JsonList(<<JsonScalar>>)),
     JsonFile(JsonList(<<LegacyEntry>>))}

RunnerIdle ==
    /\ pc = "stopped"
    /\ idx = 0
    /\ results = <<>>
    /\ correct_count = 0
    /\ total_count = 0
    /\ processed_ids = {}

ProtoReset ==
    /\ pending' = NoCall
    /\ calls' = <<>>
    /\ yielded' = <<>>
    /\ question' = "none"
    /\ rounds' = 0
    /\ agents' = <<>>
    /\ agents_in' = <<>>
    /\ ppc' = "idle"
    /\ transcript' = <<>>
    /\ loc' = LocInit
    /\ outcome' = NoOutcome

RunnerReset ==
    /\ pc' = "stopped"
    /\ idx' = 0
    /\ results' = <<>>
    /\ correct_count' = 0
    /\ total_count' = 0
    /\ processed_ids' = {}

protoState == <<pending, calls, yielded, question, rounds, agents, agents_in,
                ppc, transcript, loc, outcome>>
runnerLocals == <<results, correct_count, total_count, processed_ids>>
fixed == <<pureVars, backend, protocol_class, data, file0, usageVars,
           meterVars, driverVars>>

RunnerStart_CountsFromZero ==
    /\ pc = "stopped"
    /\ Len(trail) < MaxRuns
    /\ LET existing == LoadExisting(file)
       IN  IF existing.ok
           THEN /\ results' = existing.results
                /\ correct_count' = 0
                /\ total_count' = 0
                /\ processed_ids' = ProcessedIds(existing.results)
                /\ loaded' = existing.results
                /\ idx' = 1
                /\ pc' = "loop"
                /\ trail' = Append(trail, "running")
           ELSE /\ trail' = Append(trail, "failed")
                /\ loaded' = <<>>
                /\ UNCHANGED <<pc, idx, runnerLocals>>
    /\ UNCHANGED <<fixed, protoState, file, persisted, at_crash>>

\* run_experiment is called: the counters are initialised and an existing
\* output file is loaded
RunnerStart ==
    /\ pc = "stopped"
    /\ Len(trail) < MaxRuns
    /\ LET existing == LoadExisting(file)
       IN  IF existing.ok
           THEN /\ results' = existing.results
                /\ correct_count' = existing.correct_count
                /\ total_count' = existing.total_count
                /\ processed_ids' = ProcessedIds(existing.results)
                /\ loaded' = existing.results
                /\ idx' = 1
                /\ pc' = "loop"
                /\ trail' = Append(trail, "running")
           ELSE /\ trail' = Append(trail, "failed")
                /\ loaded' = <<>>
                /\ UNCHANGED <<pc, idx, runnerLocals>>
    /\ UNCHANGED <<fixed, protoState, file, persisted, at_crash>>

AlwaysProcess(q, ids) == FALSE

\* if question in processed_ids
AlreadyProcessed(q, ids) == q \in ids

\* for item in data: an item whose question was loaded is skipped
RunnerSkip ==
    /\ pc = "loop"
    /\ idx <= Len(data)
    /\ AlreadyProcessed(data[idx].question, processed_ids)
    /\ idx' = idx + 1
    /\ UNCHANGED <<fixed, protoState, file, persisted, at_crash, trail, loaded,
                   pc, runnerLocals>>

\* the roster is built and protocol.run is called
RunnerProcess ==
    /\ pc = "loop"
    /\ idx <= Len(data)
    /\ ~AlreadyProcessed(data[idx].question, processed_ids)
    /\ question' = data[idx].question
    /\ agents' = Roster(protocol_class)
    /\ agents_in' = agents'
    /\ rounds' = DefaultRounds(RunOf(protocol_class))
    /\ ppc' = "entry"
    /\ pc' = "run"
    /\ UNCHANGED <<fixed, pending, calls, yielded, transcript, loc, outcome,
                   file, persisted, at_crash, trail, loaded, idx, runnerLocals>>

RunnerItemDone_Unscored ==
    /\ pc = "run"
    /\ ppc = "returned"
    /\ LET item == data[idx]
           result == [ground_truth |-> item.answer, is_correct |-> TRUE]
                         @@ outcome.value
       IN  /\ correct_count' = correct_count + 1
           /\ total_count' = total_count + 1
           /\ results' = Append(results, result)
    /\ pc' = "save"
    /\ ProtoReset
    /\ UNCHANGED <<fixed, file, persisted, at_crash, trail, loaded, idx,
                   processed_ids>>

\* protocol.run returned: the result is scored and appended
RunnerItemDone ==
    /\ pc = "run"
    /\ ppc = "returned"
    /\ LET item == data[idx]
           is_correct == EvaluateCorrectness(
                             Get(outcome.value, "final_answer", <<>>), item.answer)
           result == [ground_truth |-> item.answer, is_correct |-> is_correct]
                         @@ outcome.value
       IN  /\ correct_count' = IF is_correct THEN correct_count + 1
                               ELSE correct_count
           /\ total_count' = total_count + 1
           /\ results' = Append(results, result)
    /\ pc' = "save"
    /\ ProtoReset
    /\ UNCHANGED <<fixed, file, persisted, at_crash, trail, loaded, idx,
                   processed_ids>>

RunnerItemError_Prepending ==
    /\ pc = "run"
    /\ ppc = "raised"
    /\ results' = <<[error |-> outcome.error, question |-> question]>> \o results
    /\ pc' = "save"
    /\ ProtoReset
    /\ UNCHANGED <<fixed, file, persisted, at_crash, trail, loaded, idx,
                   correct_count, total_count, processed_ids>>

RunnerItemError_Counted ==
    /\ pc = "run"
    /\ ppc = "raised"
    /\ results' = Append(results, [error |-> outcome.error, question |-> question])
    /\ total_count' = total_count + 1
    /\ pc' = "save"
    /\ ProtoReset
    /\ UNCHANGED <<fixed, file, persisted, at_crash, trail, loaded, idx,
                   correct_count, processed_ids>>

\* except Exception as e: an error entry is appended, the counts stay
RunnerItemError ==
    /\ pc = "run"
    /\ ppc = "raised"
    /\ results' = Append(results, [error |-> outcome.error, question |-> question])
    /\ pc' = "save"
    /\ ProtoReset
    /\ UNCHANGED <<fixed, file, persisted, at_crash, trail, loaded, idx,
                   correct_count, total_count, processed_ids>>

\* _save_results, open(filepath, "w"): the file is truncated
RunnerSaveOpen ==
    /\ pc = "save"
    /\ file' = Undecodable
    /\ pc' = "dump"
    /\ UNCHANGED <<fixed, protoState, persisted, at_crash, trail, loaded, idx,
                   runnerLocals>>

RunnerSaveDump_Stale ==
    /\ pc = "dump"
    /\ idx <= Len(data)
    /\ file' = JsonFile(OutputData(protocol_class, DatasetName,
                                   SubSeq(results, 1, Len(results) - 1),
                                   correct_count, total_count))
    /\ persisted' = SubSeq(results, 1, Len(results) - 1)
    /\ idx' = idx + 1
    /\ pc' = "loop"
    /\ UNCHANGED <<fixed, protoState, at_crash, trail, loaded, runnerLocals>>

\* _save_results, json.dump: the whole result list and the metadata are
\* written; the loop goes on to the next item
RunnerSaveDump ==
    /\ pc = "dump"
    /\ idx <= Len(data)
    /\ file' = JsonFile(OutputData(protocol_class, DatasetName, results,
                                   correct_count, total_count))
    /\ persisted' = results
    /\ idx' = idx + 1
    /\ pc' = "loop"
    /\ UNCHANGED <<fixed, protoState, at_crash, trail, loaded, runnerLocals>>

\* the loop is over: the final save begins
RunnerFinalOpen ==
    /\ pc = "loop"
    /\ idx > Len(data)
    /\ file' = Undecodable
    /\ pc' = "final_dump"
    /\ UNCHANGED <<fixed, protoState, persisted, at_crash, trail, loaded, idx,
                   runnerLocals>>

\* the final save completes and run_experiment returns
RunnerFinalDump ==
    /\ pc = "final_dump"
    /\ file' = JsonFile(OutputData(protocol_class, DatasetName, results,
                                   correct_count, total_count))
    /\ persisted' = results
    /\ trail' = [trail EXCEPT ![Len(trail)] = "done"]
    /\ RunnerReset
    /\ UNCHANGED <<fixed, protoState, at_crash, loaded>>

\* the process is interrupted (killed) at any point of a run
Interrupt ==
    /\ pc # "stopped"
    /\ trail' = [trail EXCEPT ![Len(trail)] = "interrupted"]
    /\ at_crash' = persisted
    /\ RunnerReset
    /\ ProtoReset
    /\ UNCHANGED <<fixed, file, persisted, loaded>>

InitRunner ==
    /\ PureIdle
    /\ ProtoIdle
    /\ UsageIdle
    /\ DriverIdle
    /\ backend = RunnerBackend
    /\ protocol_class \in ProtocolNames \cup DerivedNames
    /\ data \in Datasets
    /\ file \in InitialFiles
    /\ file0 = file
    /\ RunnerIdle
    /\ trail = <<>>
    /\ loaded = <<>>
    /\ persisted = <<>>
    /\ at_crash = <<>>

RunnerStep ==
    \/ RunnerStart
    \/ RunnerSkip
    \/ RunnerProcess
    \/ RunnerItemDone
    \/ RunnerItemError
    \/ RunnerSaveOpen
    \/ RunnerSaveDump
    \/ RunnerFinalOpen
    \/ RunnerFinalDump

Next == RunnerStep \/ ProtocolStep \/ Interrupt

Spec == InitRunner /\ [][Next]_vars

----------------------------------------------------------------------------
(* SpecProto: one call of run, on any number of agents *)

RunnerOff ==
    /\ RunnerIdle
    /\ data = <<>>
    /\ file = NoFile
    /\ file0 = NoFile
    /\ trail = <<>>
    /\ loaded = <<>>
    /\ persisted = <<>>
    /\ at_crash = <<>>

InitProto ==
    /\ PureIdle
    /\ RunnerOff
    /\ UsageIdle
    /\ DriverIdle
    /\ protocol_class \in ProtocolNames
    /\ backend \in ProtoBackends(protocol_class)
    /\ pending = NoCall
    /\ calls = <<>>
    /\ yielded = <<>>
    /\ question = "q1"
    /\ rounds \in RoundsOf(protocol_class)
    /\ agents \in AgentLists(protocol_class)
    /\ agents_in = agents
    /\ ppc = "entry"
    /\ transcript = <<>>
    /\ loc = LocInit
    /\ outcome = NoOutcome

NextProto == ProtocolStep

SpecProto == InitProto /\ [][NextProto]_vars

----------------------------------------------------------------------------
(* SpecDecide: one British run with one check; the Opposition's judgment *)
(* is any short text                                                     *)

DecisionChars == {"I", ":", " ", "N", "O"}

Decisions == SeqsUpTo(DecisionChars, MaxDecisionLen)

InitDecide ==
    /\ PureIdle
    /\ RunnerOff
    /\ UsageIdle
    /\ DriverIdle
    /\ protocol_class = "BritishParliamentaryProtocol"
    /\ \E decision \in Decisions :
          backend = ProtoBackend(<<FragSentence>>, {decision})
    /\ pending = NoCall
    /\ calls = <<>>
    /\ yielded = <<>>
    /\ question = "q1"
    /\ rounds = DefaultRounds(protocol_class)
    /\ agents = Roster(protocol_class)
    /\ agents_in = agents
    /\ ppc = "entry"
    /\ transcript = <<>>
    /\ loc = LocInit
    /\ outcome = NoOutcome

NextDecide ==
    \/ SpeakCall
    \/ BackendRaises
    \/ British_Entry
    \/ British_OpenStream
    \/ British_Pull
    \/ British_Token
    \/ British_StreamEnd
    \/ British_Decision
    \/ British_Address
    \/ British_Rebuttal
    \/ British_Final

SpecDecide == InitDecide /\ [][NextDecide]_vars

----------------------------------------------------------------------------
(* Harness of the pure functions: the inputs are drawn in Init *)

ExtractChars == {"F", ":", " ", "a"}
ScoreChars == {"a", "A", ".", " "}

\* the pure functions make no backend call
NoBackend == [site \in Sites |-> {}]

InitExtract ==
    /\ backend = NoBackend
    /\ protocol_class = "none"
    /\ ProtoIdle
    /\ RunnerOff
    /\ UsageIdle
    /\ DriverIdle
    /\ fpc = "extract"
    /\ text \in SeqsUpTo(ExtractChars, MaxTextLen)
    /\ prediction = NoText
    /\ ground_truth = NoText
    /\ ret = NoText

InitScore ==
    /\ backend = NoBackend
    /\ protocol_class = "none"
    /\ ProtoIdle
    /\ RunnerOff
    /\ UsageIdle
    /\ DriverIdle
    /\ fpc = "score"
    /\ text = NoText
    /\ prediction \in SeqsUpTo(ScoreChars, MaxStrLen)
    /\ ground_truth \in SeqsUpTo(ScoreChars, MaxStrLen)
    /\ ret = NoText

CallExtract ==
    /\ fpc = "extract"
    /\ ret' = ExtractFinalAnswer(text)
    /\ fpc' = "extracted"
    /\ UNCHANGED <<text, prediction, ground_truth, backendVars, protoVars,
                   runnerVars, usageVars, meterVars, driverVars>>

CallScore ==
    /\ fpc = "score"
    /\ ret' = EvaluateCorrectness(prediction, ground_truth)
    /\ fpc' = "scored"
    /\ UNCHANGED <<text, prediction, ground_truth, backendVars, protoVars,
                   runnerVars, usageVars, meterVars, driverVars>>

NextExtract == CallExtract
NextScore == CallScore

SpecExtract == InitExtract /\ [][NextExtract]_vars
SpecScore == InitScore /\ [][NextScore]_vars

----------------------------------------------------------------------------
(* SpecUsage: direct calls of add_usage, get_usage and reset_usage *)

InitUsage ==
    /\ PureIdle
    /\ ProtoIdle
    /\ RunnerOff
    /\ DriverIdle
    /\ backend = NoBackend
    /\ protocol_class = "none"
    /\ provider \in ProviderNames
    /\ prompt_tokens = InitialCount(provider)
    /\ completion_tokens = InitialCount(provider)
    /\ resets = 0
    /\ reports = <<>>
    /\ usage = NoUsage

usageFrame == <<pureVars, backendVars, protoVars, runnerVars, driverVars,
                provider>>

\* provider.add_usage(u[1], u[2]); on a provider whose counters were never
\* assigned, += raises AttributeError
CallAddUsage ==
    \E u \in UsageReports :
        /\ Len(reports) < MaxReports
        /\ IF prompt_tokens = NoAttribute
           THEN /\ usage' = Raised(AttributeError)
                /\ UNCHANGED <<counters, reports>>
           ELSE /\ add_usage(u[1], u[2])
                /\ reports' = Append(reports, u)
                /\ usage' = NoUsage
        /\ UNCHANGED <<usageFrame, resets>>

CallGetUsage ==
    /\ usage = NoUsage
    /\ usage' = IF prompt_tokens = NoAttribute
                THEN Raised(AttributeError)
                ELSE Returned(get_usage)
    /\ UNCHANGED <<usageFrame, counters, resets, reports>>

CallResetUsage ==
    /\ resets < MaxResets
    /\ reset_usage
    /\ reports' = <<>>
    /\ usage' = NoUsage
    /\ UNCHANGED usageFrame

NextUsage == CallAddUsage \/ CallGetUsage \/ CallResetUsage

SpecUsage == InitUsage /\ [][NextUsage]_vars

----------------------------------------------------------------------------
(* SpecMain: the multi-run driver, main.py *)

RUNS == 28

\* the values of the Protocols dict, in its order
Protocols ==
    <<"SingleCoTProtocol", "SocraticDialogueProtocol",
      "AmericanCongressProtocol", "BritishParliamentaryProtocol">>

\* the keys of the Protocols dict, in its order
ProtocolKeys == <<"CoT", "Socratic", "Congress", "British">>

load_metadata_FromProvider(f) ==
    LET meta == f.json.members.metadata
    IN  [accuracy |-> meta.accuracy,
         prompt_tokens |-> get_usage.prompt_tokens,
         completion_tokens |-> get_usage.completion_tokens,
         total_tokens |-> get_usage.total_tokens]

\* accuracy and token counts of a results file
load_metadata(f) ==
    LET meta == f.json.members.metadata
    IN  [accuracy |-> meta.accuracy,
         prompt_tokens |-> Get(meta, "prompt_tokens", 0),
         completion_tokens |-> Get(meta, "completion_tokens", 0),
         total_tokens |-> Get(meta, "total_tokens", 0)]

\* the slice of the dataset every run_experiment call of main works on
MainData == <<[question |-> "q1", answer |-> <<"a">>]>>

InitMain ==
    /\ PureIdle
    /\ ProtoIdle
    /\ RunnerIdle
    /\ backend = RunnerBackend
    /\ protocol_class = "none"
    /\ data = MainData
    /\ file = NoFile
    /\ file0 = NoFile
    /\ trail = <<>>
    /\ loaded = <<>>
    /\ persisted = <<>>
    /\ at_crash = <<>>
    /\ provider \in ProviderNames
    /\ prompt_tokens = InitialCount(provider)
    /\ completion_tokens = InitialCount(provider)
    /\ resets = 0
    /\ reports = <<>>
    /\ usage = NoUsage
    /\ dpc = "run_loop"
    /\ run_id = 1
    /\ proto_idx = 0
    /\ run_summary = <<>>
    /\ summary_file = [exists |-> FALSE]

mainFrame == <<pureVars, backendVars, question, rounds, agents, agents_in,
               ppc, transcript, loc, outcome, data, pc, idx, runnerLocals,
               provider, meterVars>>

runFiles == <<file, file0, trail, loaded, persisted, at_crash>>

\* for run_id in range(1, RUNS + 1): the usage is reset, then the inner
\* loop over Protocols begins
MainRunStart ==
    /\ dpc = "run_loop"
    /\ run_id <= RUNS
    /\ run_id <= MaxRunIds
    /\ reset_usage
    /\ proto_idx' = 1
    /\ run_summary' = <<>>
    /\ summary_file' = NoFile
    /\ dpc' = "proto_loop"
    /\ UNCHANGED <<mainFrame, runFiles, protocol_class, run_id>>

MainCallExperiment_Resetting ==
    /\ dpc = "proto_loop"
    /\ proto_idx <= Len(Protocols)
    /\ reset_usage
    /\ protocol_class' = Protocols[proto_idx]
    /\ file' \in InitialFiles
    /\ file0' = file'
    /\ trail' = <<>>
    /\ loaded' = <<>>
    /\ persisted' = <<>>
    /\ at_crash' = <<>>
    /\ dpc' = "experiment"
    /\ UNCHANGED <<mainFrame, run_id, proto_idx, run_summary, summary_file>>

\* runner.run_experiment(proto_class, ..., output_file=out_path) is called;
\* the file at out_path may be left from an earlier invocation of main
MainCallExperiment ==
    /\ dpc = "proto_loop"
    /\ proto_idx <= Len(Protocols)
    /\ protocol_class' = Protocols[proto_idx]
    /\ file' \in InitialFiles
    /\ file0' = file'
    /\ trail' = <<>>
    /\ loaded' = <<>>
    /\ persisted' = <<>>
    /\ at_crash' = <<>>
    /\ dpc' = "experiment"
    /\ UNCHANGED <<mainFrame, counters, resets, run_id, proto_idx, run_summary,
                   summary_file>>

\* run_experiment begins
MainExperimentStart ==
    /\ dpc = "experiment"
    /\ trail = <<>>
    /\ RunnerStart

\* run_experiment, the protocols and the agents at work
MainExperimentStep ==
    /\ dpc = "experiment"
    /\ \/ RunnerSkip
       \/ RunnerProcess
       \/ RunnerItemDone
       \/ RunnerItemError
       \/ RunnerSaveOpen
       \/ RunnerSaveDump
       \/ RunnerFinalOpen
       \/ RunnerFinalDump
       \/ ProtocolStep

\* run_experiment returned: the metadata is read back and the inner loop
\* goes on
MainExperimentReturns ==
    /\ dpc = "experiment"
    /\ pc = "stopped"
    /\ trail = <<"done">>
    /\ run_summary' = Append(run_summary,
          [proto_name |-> ProtocolKeys[proto_idx], meta |-> load_metadata(file)])
    /\ proto_idx' = proto_idx + 1
    /\ dpc' = "proto_loop"
    /\ UNCHANGED <<mainFrame, runFiles, protocol_class, counters, resets,
                   run_id, summary_file>>

\* run_experiment raised: main has no handler
MainExperimentRaises ==
    /\ dpc = "experiment"
    /\ pc = "stopped"
    /\ trail = <<"failed">>
    /\ dpc' = "raised"
    /\ UNCHANGED <<mainFrame, runFiles, protocol_class, counters, resets,
                   run_id, proto_idx, run_summary, summary_file>>

\* the four protocols are through: the summary is written and the outer
\* loop goes on
MainRunEnd ==
    /\ dpc = "proto_loop"
    /\ proto_idx > Len(Protocols)
    /\ summary_file' = [exists |-> TRUE, run_id |-> run_id,
                        protocols |-> run_summary]
    /\ run_id' = run_id + 1
    /\ dpc' = "run_loop"
    /\ UNCHANGED <<mainFrame, runFiles, protocol_class, counters, resets,
                   proto_idx, run_summary>>

NextMain ==
    \/ MainRunStart
    \/ MainCallExperiment
    \/ MainExperimentStart
    \/ MainExperimentStep
    \/ MainExperimentReturns
    \/ MainExperimentRaises
    \/ MainRunEnd

SpecMain == InitMain /\ [][NextMain]_vars

----------------------------------------------------------------------------
(* Claims about the pure functions *)

LastIndex(s, sub) ==
    CHOOSE k \in 1..(Len(s) + 1) :
        /\ OccursAt(s, sub, k)
        /\ \A j \in (k + 1)..(Len(s) + 1) : ~OccursAt(s, sub, j)

Occurrences(s, sub) == {k \in 1..(Len(s) + 1) : OccursAt(s, sub, k)}

\* C9: final-answer extraction returns the text after the last occurrence of
\* the marker with surrounding whitespace stripped, and returns the input
\* text unchanged (not stripped) when the marker does not occur.
C9_ExtractAfterLastMarker ==
    fpc = "extracted" =>
        ret = IF Occurrences(text, Marker) # {}
              THEN Strip(Tail0(text, LastIndex(text, Marker) + Len(Marker)),
                         Whitespace)
              ELSE text

\* witness of C9: a text with two markers whose last piece had whitespace
\* to strip and a non-empty answer left
C9_Witness ==
    /\ fpc = "extracted"
    /\ Cardinality(Occurrences(text, Marker)) = 2
    /\ ret # <<>>
    /\ ret # Tail0(text, LastIndex(text, Marker) + Len(Marker))

\* what the specification calls normalization: lowercase, then remove all
\* leading and trailing punctuation and whitespace
StripAllNormalize(s) == Strip(Lower(s), Punctuation \cup Whitespace)

\* C10: scoring is true exactly when the normalized ground truth is
\* non-empty and a substring of the normalized prediction, normalization
\* removing all leading and trailing punctuation and whitespace.
C10_ScoreIsSubstringOfNormalized ==
    fpc = "scored" =>
        ret = (/\ StripAllNormalize(ground_truth) # <<>>
               /\ Contains(StripAllNormalize(prediction),
                           StripAllNormalize(ground_truth)))

SwapCase(c) ==
    CASE c = "a" -> "A"
      [] c = "A" -> "a"
      [] OTHER -> c

\* s with the letter case changed at one position (every string of the
\* alphabet is an input, so changes at several positions follow step by step)
CaseVariants(s) ==
    {[s EXCEPT ![k] = SwapCase(@)] : k \in 1..Len(s)}

\* s with one punctuation character added at the very start or very end
PunctuationVariants(s) ==
    {<<c>> \o s : c \in Punctuation} \cup {s \o <<c>> : c \in Punctuation}

ScoreVariants(s) == CaseVariants(s) \cup PunctuationVariants(s)

\* C11: changing the letter case of the prediction or of the ground truth,
\* or adding punctuation characters at the very start or very end of either,
\* does not change the score.
C11_ScoreIgnoresCaseAndOuterPunctuation ==
    fpc = "scored" =>
        /\ \A p \in ScoreVariants(prediction) :
              EvaluateCorrectness(p, ground_truth) = ret
        /\ \A g \in ScoreVariants(ground_truth) :
              EvaluateCorrectness(prediction, g) = ret

C11_Witness ==
    /\ fpc = "scored"
    /\ ret = TRUE
    /\ prediction = <<" ", "A", ".">>
    /\ ground_truth = <<".", "a">>

----------------------------------------------------------------------------
(* Claims about the protocols *)

ClaimedArity(protocol) == IF protocol = "SingleCoTProtocol" THEN 1 ELSE 2

\* C8: run called with a number of agents different from the protocol's
\* arity fails immediately with an arity error, makes no generate or
\* generate_stream call, and changes no agent's turn log.
C8_WrongArityFailsBeforeAnyCall ==
    (ppc \notin {"idle", "entry"}
        /\ Len(agents_in) # ClaimedArity(protocol_class)) =>
        /\ ppc = "raised"
        /\ outcome = Raised(ArityError)
        /\ calls = <<>>
        /\ pending = NoCall
        /\ yielded = <<>>
        /\ agents = agents_in

\* witness of C8: the streaming protocol refused three agents that already
\* had a turn log
C8_Witness ==
    /\ ppc = "raised"
    /\ protocol_class = "BritishParliamentaryProtocol"
    /\ Len(agents_in) = 3
    /\ agents_in[1].memory # <<>>
    /\ outcome = Raised(ArityError)

----------------------------------------------------------------------------
(* Claims about the runner *)

IsError(r) == "error" \in DOMAIN r

QuestionIn(q, rs) == \E k \in 1..Len(rs) : Get(rs[k], "question", "None") = q

NoDuplicateQuestions(rs) ==
    \A j, k \in 1..Len(rs) : j # k => rs[j].question # rs[k].question

IsPrefix(s, t) == Len(s) <= Len(t) /\ \A k \in 1..Len(s) : s[k] = t[k]

CountOf(rs, P(_)) == Cardinality({k \in 1..Len(rs) : P(rs[k])})

NotError(r) == ~IsError(r)

SavedMetadata == file.json.members.metadata

TwoCompleteRuns ==
    /\ pc = "stopped"
    /\ trail = <<"done", "done">>
    /\ ~file0.exists

\* C1 as stated: two runs on the same output path (none existing before)
\* and slice leave no question twice in the persisted list and a
\* total_count equal to the number of items.
C1_TwoRunsCountEveryItemOnce ==
    TwoCompleteRuns =>
        /\ NoDuplicateQuestions(ResultsIn(file))
        /\ SavedMetadata.total_count = Len(data)

\* C1 amended: with pairwise distinct questions in the slice, two runs
\* leave exactly one entry per item, in order, and a total_count equal to
\* the number of entries that are not error entries.
C1_TwoRunsOneEntryPerItem ==
    (TwoCompleteRuns /\ NoDuplicateQuestions(data)) =>
        LET rs == ResultsIn(file)
        IN  /\ NoDuplicateQuestions(rs)
            /\ Len(rs) = Len(data)
            /\ \A k \in 1..Len(rs) : rs[k].question = data[k].question
            /\ SavedMetadata.total_count = CountOf(rs, NotError)
            /\ SavedMetadata.total_count <= Len(data)

\* witness of C1: two complete runs over two distinct questions, one of
\* which raised
C1_Witness ==
    /\ TwoCompleteRuns
    /\ Len(data) = 2
    /\ NoDuplicateQuestions(data)
    /\ IsError(ResultsIn(file)[1])
    /\ SavedMetadata.total_count = 1

\* C2: on resume, an item whose question is in the loaded result list is
\* passed over: no agent is built, no backend call is made and no entry is
\* appended for it; whatever the backend does belongs to an item that was
\* not loaded.
C2_LoadedQuestionsAreSkipped ==
    /\ []((pending # NoCall \/ ppc # "idle" \/ agents # <<>>) =>
            (pc = "run" /\ ~QuestionIn(data[idx].question, loaded)))
    /\ [][(pc = "loop" /\ idx <= Len(data)
             /\ QuestionIn(data[idx].question, loaded)) =>
            \/ pc' = "stopped"
            \/ /\ pc' = "loop"
               /\ idx' = idx + 1
               /\ results' = results
               /\ agents' = <<>>
               /\ calls' = calls
               /\ pending' = NoCall]_vars

\* witness of C2: the second run has passed over the first item, which the
\* first run had persisted
C2_Witness ==
    /\ Len(trail) = 2
    /\ pc = "loop"
    /\ idx = 2
    /\ loaded # <<>>
    /\ QuestionIn(data[1].question, loaded)
    /\ results = loaded
    /\ calls = <<>>

\* C3: after an interruption at any point, the resumed run still holds
\* every result that had been persisted, and treats its question as
\* processed.
C3_PersistedResultsSurviveInterruption ==
    (Len(trail) >= 2
        /\ trail[Len(trail) - 1] = "interrupted"
        /\ trail[Len(trail)] \in {"running", "done"}) =>
        IF pc = "stopped"
        THEN IsPrefix(at_crash, ResultsIn(file))
        ELSE /\ IsPrefix(at_crash, results)
             /\ \A k \in 1..Len(at_crash) :
                    at_crash[k].question \in processed_ids

\* C4: an exception raised while processing an item appends one error
\* entry with the question and the message, leaves both counts as they
\* were, and the run goes on to save and to the next item.
C4_ItemErrorIsRecordedAndRunContinues ==
    [][/\ (pc = "run" /\ ppc = "raised" /\ pc' # "stopped") =>
            /\ results' = Append(results, [error |-> outcome.error,
                                           question |-> data[idx].question])
            /\ total_count' = total_count
            /\ correct_count' = correct_count
            /\ idx' = idx
            /\ pc' = "save"
       /\ (pc = "dump" /\ pc' # "stopped") =>
            /\ pc' = "loop"
            /\ idx' = idx + 1
            /\ results' = results]_vars

\* witness of C4: the first item raised, was recorded without being
\* counted, and the run is processing the second item
C4_Witness ==
    /\ pc = "run"
    /\ idx = 2
    /\ Len(results) = 1
    /\ IsError(results[1])
    /\ total_count = 0
    /\ pending # NoCall

\* C5: when a run has ended (not by interruption), the persisted result
\* list holds an entry for every item of the slice.
C5_EveryItemHasAnEntryAtTheEnd ==
    (pc = "stopped" /\ trail # <<>> /\ trail[Len(trail)] # "interrupted") =>
        \A k \in 1..Len(data) : QuestionIn(data[k].question, ResultsIn(file))

ExpectedShape(json) ==
    \/ /\ json.type = "list"
       /\ \A k \in 1..Len(json.items) : IsDict(json.items[k])
    \/ /\ json.type = "dict"
       /\ "results" \in DOMAIN json.members
       /\ \A k \in 1..Len(json.members.results) : IsDict(json.members.results[k])

Malformed(f) == f.exists /\ (~f.decodable \/ ~ExpectedShape(f.json))

\* C6: a run that finds a malformed file at the output path does not fail:
\* it starts with an empty result list, zero counts and nothing to skip.
C6_MalformedFileStartsFresh ==
    (Len(trail) = 1 /\ Malformed(file0)) =>
        /\ trail[1] # "failed"
        /\ (pc = "loop" /\ idx = 1) =>
              /\ results = <<>>
              /\ correct_count = 0
              /\ total_count = 0
              /\ processed_ids = {}

\* C7: backend calls are made only while the current item is processed;
\* none is in flight while the file is rewritten; and once an item of this
\* run has been processed, the file holds the whole result list so far and
\* the running counts before any call for the next item begins.
C7_FileRewrittenBetweenItems ==
    /\ (pending # NoCall \/ ppc # "idle") =>
          (pc = "run" /\ question = data[idx].question)
    /\ (pc = "run" /\ Len(results) > Len(loaded)) =>
          /\ file.exists /\ file.decodable /\ file.json.type = "dict"
          /\ file.json.members.results = results
          /\ SavedMetadata.correct_count = correct_count
          /\ SavedMetadata.total_count = total_count
          /\ SavedMetadata.accuracy = Accuracy(correct_count, total_count)

\* witness of C7: a backend call for the second item is in flight and the
\* file holds the first item's result
C7_Witness ==
    /\ pc = "run"
    /\ pending # NoCall
    /\ idx = 2
    /\ Len(results) = 1
    /\ Len(loaded) = 0
    /\ ResultsIn(file) = results

----------------------------------------------------------------------------
(* Claims about a whole run of the runner *)

\* the answer v of the scripted backend ("Final Answer: v")
ScriptedAnswer == <<"a">>

\* a first run, on no output file, completed with every backend call answered
FreshRunDone ==
    /\ pc = "stopped"
    /\ trail = <<"done">>
    /\ ~file0.exists
    /\ \A k \in 1..Len(persisted) : ~IsError(persisted[k])

MatchingItems ==
    {k \in 1..Len(data) :
        /\ normalize(data[k].answer) # <<>>
        /\ Contains(normalize(ScriptedAnswer), normalize(data[k].answer))}

\* C12: after a fresh Single-Chain run in which the backend always answers
\* "Final Answer: v", the persisted total_count is the number of items,
\* correct_count is the number of items whose normalized ground truth is a
\* non-empty substring of normalized v, and accuracy is their quotient.
C12_FreshSingleChainRunCounts ==
    (FreshRunDone /\ protocol_class = "SingleCoTProtocol") =>
        /\ file.exists /\ file.decodable /\ file.json.type = "dict"
        /\ SavedMetadata.total_count = Len(data)
        /\ SavedMetadata.correct_count = Cardinality(MatchingItems)
        /\ Len(data) > 0 =>
              SavedMetadata.accuracy = <<Cardinality(MatchingItems), Len(data)>>

C12_Witness ==
    /\ FreshRunDone
    /\ protocol_class = "SingleCoTProtocol"
    /\ Len(data) = MaxItems
    /\ Cardinality(MatchingItems) = 1
    /\ SavedMetadata.correct_count = 1

----------------------------------------------------------------------------
(* Claims about the British-Parliamentary streamed opening *)

British == protocol_class = "BritishParliamentaryProtocol"

\* the fragment stream of the scripted backend
Script == CHOOSE f \in backend["gov_prompt"] : TRUE

RECURSIVE Flatten(_)
Flatten(fs) == IF fs = <<>> THEN <<>> ELSE Head(fs) \o Flatten(Tail(fs))

StartsWith(t, label) == t.content # <<>> /\ t.content[1] = label

IsInterjection(t) == StartsWith(t, "POI: ")
IsGovResponse(t) == StartsWith(t, "Response to POI: ")
IsFullSpeech(t) == StartsWith(t, "Full Speech: ")

TurnsWhere(P(_)) == {k \in 1..Len(transcript) : P(transcript[k])}

\* the judgment calls made so far (the check points reached)
CheckCalls ==
    {k \in 1..Len(calls) :
        /\ calls[k].method = "generate"
        /\ calls[k].context.template = "opp_check_prompt"}

\* C13: with an Opposition that answers NO at every check, whatever the
\* fragment stream, the interruption count is 0, the transcript holds no
\* interjection and no Government-response turn, and the full-speech turn
\* is the in-order concatenation of all streamed fragments.
C13_AlwaysNoMeansNoInterruption ==
    (British /\ backend["opp_check_prompt"] = {RespNo}) =>
        /\ loc.interruption_count = 0
        /\ TurnsWhere(IsInterjection) = {}
        /\ TurnsWhere(IsGovResponse) = {}
        /\ ppc = "returned" =>
              /\ outcome.value.interruptions = 0
              /\ outcome.value.transcript = transcript
              /\ \E k \in 1..Len(transcript) :
                    /\ TurnsWhere(IsFullSpeech) = {k}
                    /\ transcript[k].content =
                          <<"Full Speech: ">> \o Flatten(Script)

C13_Witness ==
    /\ British
    /\ backend["opp_check_prompt"] = {RespNo}
    /\ ppc = "returned"
    /\ Script = <<FragSentence, FragLong>>
    /\ Cardinality(CheckCalls) = 2

\* C14: with an Opposition that answers INTERRUPT: x at every check, every
\* check point reached has added exactly one interjection turn followed by
\* one Government-response turn, and the returned interruption count is
\* the number of check points reached.
C14_AlwaysInterruptCountsEveryCheck ==
    (/\ British
     /\ backend["opp_check_prompt"] = {RespInterrupt}
     /\ ppc \in {"for_token", "opp_rebuttal_prompt", "british_final_prompt",
                 "returned"}) =>
        /\ Cardinality(TurnsWhere(IsInterjection)) = Cardinality(CheckCalls)
        /\ Cardinality(TurnsWhere(IsGovResponse)) = Cardinality(CheckCalls)
        /\ \A k \in TurnsWhere(IsInterjection) :
              /\ k + 1 \in TurnsWhere(IsGovResponse)
              /\ transcript[k].role = agents[2].name
              /\ transcript[k + 1].role = agents[1].name
        /\ loc.interruption_count = Cardinality(CheckCalls)
        /\ ppc = "returned" =>
              outcome.value.interruptions = Cardinality(CheckCalls)

C14_Witness ==
    /\ British
    /\ backend["opp_check_prompt"] = {RespInterrupt}
    /\ ppc = "returned"
    /\ Cardinality(CheckCalls) = 2
    /\ outcome.value.interruptions = 2

\* the check condition as the claim words it: the chunk is longer than 120
\* characters, or it ends with '.', '?' or '!' and is longer than 40; with
\* trimmed, whitespace at the end of the chunk is not counted as its end
ClaimedCheckDue(chunk, trimmed) ==
    \/ Len(chunk) > 120
    \/ /\ Len(chunk) > 40
       /\ LET visible == IF trimmed THEN RStrip(chunk, Whitespace) ELSE chunk
          IN  visible # <<>> /\ visible[Len(visible)] \in {".", "?", "!"}

\* the check points the claimed condition places in a fragment sequence:
\* how many there are and the chunk left after the last fragment
RECURSIVE CheckPoints(_, _, _, _)
CheckPoints(fs, chunk, n, trimmed) ==
    IF fs = <<>> THEN [count |-> n, chunk |-> chunk]
    ELSE IF ClaimedCheckDue(chunk \o Head(fs), trimmed)
         THEN CheckPoints(Tail(fs), <<>>, n + 1, trimmed)
         ELSE CheckPoints(Tail(fs), chunk \o Head(fs), n, trimmed)

InOpening ==
    /\ British
    /\ ppc \in {"for_token", "opp_check_prompt", "gov_address_prompt",
                "opp_rebuttal_prompt", "british_final_prompt", "returned"}

\* the judgment calls are exactly the check points of the fragments
\* yielded so far, one call each, and outside a check the chunk buffer
\* holds what followed the last check point
JudgedAtCheckPoints(trimmed) ==
    InOpening =>
        LET cp == CheckPoints(yielded, <<>>, 0, trimmed)
            fired == ppc = "opp_check_prompt" /\ pending = NoCall
        IN  /\ Cardinality(CheckCalls) = cp.count - (IF fired THEN 1 ELSE 0)
            /\ ppc \notin {"opp_check_prompt", "gov_address_prompt"} =>
                  loc.current_chunk = cp.chunk

\* C15 as stated: after a fragment is appended, a judgment call is made if
\* and only if the chunk exceeds 120 characters or ends with '.', '?' or
\* '!' and exceeds 40; each firing makes one call and leaves the chunk
\* buffer empty whatever the decision; a remaining chunk that never meets
\* the condition is never submitted.
C15_CheckFiresOnChunkEnd ==
    JudgedAtCheckPoints(FALSE)

\* C15 amended: the same, the chunk ending with '.', '?' or '!' once the
\* whitespace at its end is removed (its length is taken with it).
C15_CheckFiresOnTrimmedChunkEnd ==
    JudgedAtCheckPoints(TRUE)

C15_Witness ==
    /\ British
    /\ ppc = "returned"
    /\ yielded = <<FragSpaced, FragShort>>
    /\ Cardinality(CheckCalls) = 1
    /\ loc.current_chunk = FragShort

StreamDone ==
    /\ British
    /\ ppc \in {"opp_rebuttal_prompt", "british_final_prompt", "returned"}

\* C16: whatever the Opposition decides, the fragments are consumed in
\* order, each once, and when the stream is exhausted the full-speech turn
\* holds the concatenation of every fragment yielded; that turn comes after
\* all interjection and response turns and right before the Opposition's
\* rebuttal turn.
C16_FullSpeechKeepsEveryFragment ==
    British =>
        /\ IsPrefix(yielded, Script)
        /\ loc.full_speech = Flatten(yielded)
        /\ StreamDone =>
              /\ yielded = Script
              /\ \E k \in 1..Len(transcript) :
                    /\ TurnsWhere(IsFullSpeech) = {k}
                    /\ transcript[k].role = agents[1].name
                    /\ transcript[k].content =
                          <<"Full Speech: ">> \o Flatten(yielded)
                    /\ \A j \in TurnsWhere(IsInterjection)
                                \cup TurnsWhere(IsGovResponse) : j < k
                    /\ ppc = "opp_rebuttal_prompt" => k = Len(transcript)
                    /\ ppc # "opp_rebuttal_prompt" =>
                          /\ k < Len(transcript)
                          /\ transcript[k + 1] =
                                Turn(agents[2].name, loc.opp_response)

C16_Witness ==
    /\ British
    /\ ppc = "returned"
    /\ yielded = <<FragSentence, FragLong>>
    /\ Cardinality(CheckCalls) = 2
    /\ outcome.value.interruptions = 1

----------------------------------------------------------------------------
(* Claims about the shape of a protocol run *)

\* what the backend answered to an agent's last speak (the agent keeps it)
LastResponse(a) == agents[a].memory[Len(agents[a].memory)].content

CallsBy(method) == {k \in 1..Len(calls) : calls[k].method = method}

\* C17: a Single-Chain run makes exactly one generate call and no stream
\* call, returns a transcript of exactly one turn holding that response,
\* and its final_answer is the final-answer extraction of that response.
C17_SingleChainIsOneCallOneTurn ==
    (protocol_class = "SingleCoTProtocol" /\ ppc = "returned") =>
        /\ Len(calls) = 1
        /\ CallsBy("generate") = {1}
        /\ CallsBy("generate_stream") = {}
        /\ yielded = <<>>
        /\ calls[1].agent = 1
        /\ calls[1].context.template = "prompt"
        /\ Len(agents) = 1
        /\ outcome.value.transcript =
              <<Turn(agents[1].name, LastResponse(1))>>
        /\ outcome.value.final_answer = ExtractFinalAnswer(LastResponse(1))

C17_Witness ==
    /\ protocol_class = "SingleCoTProtocol"
    /\ ppc = "returned"
    /\ LastResponse(1) = RespFinalA
    /\ outcome.value.final_answer = <<"a">>

User(content) == [role |-> "user", content |-> content]
Assistant(content) == [role |-> "assistant", content |-> content]

\* what an agent's memory gained during the run
Gained(a) ==
    SubSeq(agents[a].memory, Len(agents_in[a].memory) + 1, Len(agents[a].memory))

\* the entries one speak adds: the prompt of call k and the response of turn k
Spoke(k) == <<User(calls[k].context), Assistant(transcript[k].content)>>

\* the entry one listen adds: the content of turn k
Heard(k) == <<User(transcript[k].content)>>

OneCallPerTurn(speakers) ==
    /\ Len(transcript) = Len(speakers)
    /\ Len(calls) = Len(speakers)
    /\ \A k \in 1..Len(speakers) :
          /\ transcript[k].role = agents[speakers[k]].name
          /\ calls[k].method = "generate"
          /\ calls[k].agent = speakers[k]

SocraticSpeakers(R) == <<1>> \o Flatten([r \in 1..R |-> <<2, 1>>]) \o <<1>>

\* C18: a Socratic run with rounds = R >= 1 has the speaker sequence
\* Student, R times (Questioner, Student), Student: 2R + 2 turns, one
\* backend call per turn; in every iteration the Student has listened to
\* the question before revising and the Questioner listens to the
\* revision; final_answer is extracted from the last Student turn.
C18_SocraticTurnsAndListening ==
    (/\ protocol_class = "SocraticDialogueProtocol"
     /\ rounds >= 1
     /\ ppc = "returned") =>
        /\ Len(transcript) = 2 * rounds + 2
        /\ OneCallPerTurn(SocraticSpeakers(rounds))
        /\ outcome.value.transcript = transcript
        /\ Gained(1) =
              Spoke(1)
              \o Flatten([r \in 1..rounds |-> Heard(2 * r) \o Spoke(2 * r + 1)])
              \o Spoke(2 * rounds + 2)
        /\ Gained(2) =
              Flatten([r \in 1..rounds |-> Spoke(2 * r) \o Heard(2 * r + 1)])
        /\ outcome.value.final_answer =
              ExtractFinalAnswer(transcript[2 * rounds + 2].content)

C18_Witness ==
    /\ protocol_class = "SocraticDialogueProtocol"
    /\ ppc = "returned"
    /\ rounds = MaxRounds
    /\ Len(transcript) = 2 * MaxRounds + 2
    /\ agents_in[1].memory # <<>>

CongressSpeakers(R) == Flatten([r \in 1..R |-> <<1, 2>>]) \o <<1>>

\* C19: a Congress run with rounds = R >= 1 has the speaker sequence
\* R times (Affirmative, Negative), then Affirmative: 2R + 1 turns, one
\* backend call per turn; after each speech the other side listens to it
\* before it next speaks, and the final prompt is built from all 2R
\* preceding transcript turns.
C19_CongressTurnsAndListening ==
    (/\ protocol_class = "AmericanCongressProtocol"
     /\ rounds >= 1
     /\ ppc = "returned") =>
        /\ Len(transcript) = 2 * rounds + 1
        /\ OneCallPerTurn(CongressSpeakers(rounds))
        /\ outcome.value.transcript = transcript
        /\ Gained(1) =
              Flatten([r \in 1..rounds |-> Spoke(2 * r - 1) \o Heard(2 * r)])
              \o Spoke(2 * rounds + 1)
        /\ Gained(2) =
              Flatten([r \in 1..rounds |-> Heard(2 * r - 1) \o Spoke(2 * r)])
        /\ calls[2 * rounds + 1].context =
              Prompt("congress_final_prompt",
                     <<question, SubSeq(transcript, 1, 2 * rounds)>>)

C19_Witness ==
    /\ protocol_class = "AmericanCongressProtocol"
    /\ ppc = "returned"
    /\ rounds = MaxRounds
    /\ Len(transcript) = 2 * MaxRounds + 1
    /\ agents_in[1].memory # <<>>

CallsAt(site) ==
    {k \in 1..Len(calls) : calls[k].context.template = site}

\* C20: once the Government's stream is exhausted, exactly one non-streamed
\* Opposition rebuttal call is made, followed by exactly one Government
\* final-answer call whose prompt contains the rebuttal text; these are the
\* last two transcript turns, in that order, and final_answer is extracted
\* from the Government's final response.
C20_BritishEndsWithRebuttalThenFinal ==
    (British /\ ppc = "returned") =>
        LET n == Len(calls)
            m == Len(transcript)
            rebuttal == LastResponse(2)
            final_response == LastResponse(1)
        IN  /\ CallsAt("opp_rebuttal_prompt") = {n - 1}
            /\ CallsAt("british_final_prompt") = {n}
            /\ CallsBy("generate_stream") = {1}
            /\ calls[n - 1] =
                  GenerateCall(2, Prompt("opp_rebuttal_prompt",
                                         <<question, Flatten(yielded)>>))
            /\ calls[n] =
                  GenerateCall(1, Prompt("british_final_prompt",
                                         <<question, rebuttal>>))
            /\ \E k \in TurnsWhere(IsFullSpeech) : k = m - 2
            /\ transcript[m - 1] = Turn(agents[2].name, rebuttal)
            /\ transcript[m] = Turn(agents[1].name, final_response)
            /\ outcome.value.transcript = transcript
            /\ outcome.value.final_answer = ExtractFinalAnswer(final_response)

C20_Witness ==
    /\ British
    /\ ppc = "returned"
    /\ LastResponse(2) = RespNo
    /\ LastResponse(1) = RespFinalA
    /\ outcome.value.final_answer = <<"a">>
    /\ outcome.value.interruptions = 1

----------------------------------------------------------------------------
(* Claims about DebaterAgent *)

\* a step in which speak sends its prompt to the backend
SpeakBegins == pending = NoCall /\ pending'.method = "generate"

\* a step in which the generate call of speak returns
SpeakReturns ==
    /\ pending.method = "generate"
    /\ pending' = NoCall
    /\ ppc' # "raised"

\* what run receives from speak, seen where run records it
ReceivedBy(site, r) ==
    CASE site = "opp_check_prompt" ->
            IF Contains(r, InterruptMarker)
            THEN /\ loc'.reason = Strip(SplitOnce(r, InterruptMarker)[2], Whitespace)
                 /\ ppc' = "gov_address_prompt"
            ELSE ppc' = "for_token"
      [] site = "gov_address_prompt" ->
            transcript'[Len(transcript')].content = <<"Response to POI: ">> \o r
      [] OTHER -> transcript'[Len(transcript')].content = r

\* C21: a successful speak makes exactly one generate call, with the
\* context plus the persona reminder as prompt and the agent's persona as
\* system instruction, appends exactly two turn-log entries, the context
\* and then the response, and returns the response.
C21_SpeakIsOneCallTwoEntries ==
    [][/\ SpeakBegins =>
             /\ calls' = Append(calls, pending')
             /\ pending'.prompt =
                   [context |-> pending'.context,
                    reminder |-> agents[pending'.agent].name]
             /\ pending'.system_prompt = agents[pending'.agent].system_prompt
             /\ agents' = agents
       /\ SpeakReturns =>
             /\ calls' = calls
             /\ \E r \in backend[ppc] :
                   /\ agents'[pending.agent].memory =
                         agents[pending.agent].memory
                         \o <<[role |-> "user", content |-> pending.context],
                              [role |-> "assistant", content |-> r]>>
                   /\ ReceivedBy(ppc, r)]_vars

C21_Witness ==
    /\ protocol_class = "SocraticDialogueProtocol"
    /\ ppc = "socrates_prompt"
    /\ pending = NoCall
    /\ Len(calls) = 1
    /\ Len(agents[1].memory) = Len(agents_in[1].memory) + 2
    /\ agents[1].memory[Len(agents[1].memory)].content = RespFinalA

IsGovSpeak(c) == c.method = "generate" /\ c.agent = 1

\* the non-streamed calls of the first agent (the Government), in order
GovSpeakCalls == SelectSeq(calls, IsGovSpeak)

\* the Government's turn log holds the entries of its speak calls only
GovLogHoldsSpeakCallsOnly ==
    LET log == Gained(1)
        answered == IF pending # NoCall /\ pending.method = "generate"
                       /\ pending.agent = 1
                    THEN Len(GovSpeakCalls) - 1 ELSE Len(GovSpeakCalls)
    IN  /\ Len(log) = 2 * answered
        /\ \A j \in 1..answered :
              /\ log[2 * j - 1] = User(GovSpeakCalls[j].context)
              /\ log[2 * j].role = "assistant"
              /\ log[2 * j].content \in Replies

\* C22: speak_stream leaves the agent's turn log unchanged, at the call and
\* while or after the fragments are consumed; after a British-Parliamentary
\* run the Government's turn log holds no entry for the opening prompt or
\* the streamed speech.
C22_SpeakStreamKeepsTurnLog ==
    /\ [][(British /\ ppc \in {"gov_prompt", "for_token"}) =>
             agents' = agents]_vars
    /\ []((British /\ ppc \notin {"entry", "raised"}) =>
             GovLogHoldsSpeakCallsOnly)

C22_Witness ==
    /\ British
    /\ ppc = "returned"
    /\ Len(yielded) = MaxFragments
    /\ outcome.value.interruptions = 0
    /\ Len(Gained(1)) = 2
    /\ agents_in[1].memory # <<>>

\* a step in which an agent listens to what the other one just said
ListenStep ==
    /\ ppc \in {"socrates_prompt", "student_reply_prompt", "aff_prompt",
                "neg_prompt", "aff_rebuttal_prompt", "neg_rebuttal_prompt"}
    /\ SpeakReturns

\* C23: an agent's turn log is append-only across speak, speak_stream and
\* listen: it never gets shorter and its entries are never modified or
\* reordered; listen(content) appends exactly one entry holding content
\* and makes no backend call.
C23_TurnLogIsAppendOnly ==
    [][/\ Len(agents') = Len(agents)
       /\ \A a \in 1..Len(agents) :
             IsPrefix(agents[a].memory, agents'[a].memory)
       /\ ListenStep =>
             LET listener == 3 - pending.agent
             IN  /\ agents'[listener].memory =
                       Append(agents[listener].memory,
                              User(transcript'[Len(transcript')].content))
                 /\ calls' = calls
                 /\ pending' = NoCall]_vars

C23_Witness ==
    /\ protocol_class = "AmericanCongressProtocol"
    /\ ppc = "aff_rebuttal_prompt"
    /\ pending = NoCall
    /\ agents_in[1].memory # <<>>
    /\ Len(Gained(1)) = 3
    /\ Gained(1)[3] = User(transcript[2].content)

----------------------------------------------------------------------------
(* Claims about errors *)

\* a step in which the backend call in flight ends without an answer:
\* no response is logged and no fragment is delivered
CallFails ==
    /\ pending # NoCall
    /\ pending' = NoCall
    /\ agents' = agents
    /\ yielded' = yielded
    /\ loc' = loc

\* C24: in each protocol, when a backend call made during run raises (a
\* judgment, interjection-response or stream call included), run raises
\* that same error, makes no further backend call and no retry, and
\* returns no Result.
C24_BackendErrorEndsTheRun ==
    [][/\ CallFails =>
             /\ outcome' = Raised(BackendError)
             /\ ppc' = "raised"
             /\ calls' = calls
             /\ transcript' = transcript
       /\ ppc # "raised"]_vars

C24_Witness ==
    /\ British
    /\ ppc = "raised"
    /\ outcome = Raised(BackendError)
    /\ calls[Len(calls)].context.template = "gov_address_prompt"
    /\ loc.interruption_count = 1

\* C25: an arity error raised by protocol.run while run_experiment is
\* processing an item is fatal and immediate: the run stops at that item,
\* no error entry is recorded for it and no later item is processed.
C25_ArityErrorAbortsTheRun ==
    [][(pc = "run" /\ ppc = "raised" /\ outcome = Raised(ArityError)) =>
           /\ pc' = "stopped"
           /\ results' \in {results, <<>>}
           /\ persisted' = persisted
           /\ file' = file]_vars

\* C26: run_experiment called with a protocol class outside the four fails
\* with a configuration error before any backend call is made and before
\* any result is appended or persisted.
C26_UnsupportedProtocolIsRejected ==
    protocol_class \notin ProtocolNames =>
        /\ pending = NoCall
        /\ calls = <<>>
        /\ pc \notin {"run", "save", "dump", "final_dump"}
        /\ file = file0
        /\ \A k \in 1..Len(trail) : trail[k] # "done"

----------------------------------------------------------------------------
(* Claims about token accounting *)

RECURSIVE SumOf(_, _)
\* the sum of the k-th components of the reports rs
SumOf(rs, k) == IF rs = <<>> THEN 0 ELSE rs[1][k] + SumOf(Tail(rs), k)

\* C27: whatever reports (p1,c1)...(pn,cn) were made since the last reset,
\* get_usage returns prompt_tokens = p1+...+pn, completion_tokens =
\* c1+...+cn and total_tokens = their sum, and reset_usage leaves both
\* counters at 0.
C27_UsageIsTheSumOfReports ==
    /\ [](usage.kind = "return" =>
            usage.value =
                [prompt_tokens |-> SumOf(reports, 1),
                 completion_tokens |-> SumOf(reports, 2),
                 total_tokens |-> SumOf(reports, 1) + SumOf(reports, 2)])
    /\ [][resets' # resets =>
            /\ prompt_tokens' = 0
            /\ completion_tokens' = 0]_vars

\* witness of C27: after a reset, the reports (10,5) and (7,3) were made
\* and get_usage returned 17, 8 and 25
C27_Witness ==
    /\ resets = 1
    /\ reports = <<<<10, 5>>, <<7, 3>>>>
    /\ usage = Returned([prompt_tokens |-> 17, completion_tokens |-> 8,
                         total_tokens |-> 25])

\* C28: the driver resets the usage counters exactly once at the start of
\* each top-level run; run_experiment, the protocols and the agents never
\* reset them, and between two resets neither counter decreases.
C28_UsageResetOncePerTopLevelRun ==
    /\ [](resets = IF dpc = "run_loop" THEN run_id - 1 ELSE run_id)
    /\ [][/\ resets' # resets =>
                /\ dpc = "run_loop"
                /\ dpc' = "proto_loop"
                /\ proto_idx' = 1
                /\ resets' = resets + 1
          /\ resets' = resets =>
                /\ prompt_tokens' >= prompt_tokens
                /\ completion_tokens' >= completion_tokens]_vars

\* witness of C28: in the second top-level run, the second protocol is at
\* work and the calls made since the second reset have been counted
C28_Witness ==
    /\ dpc = "experiment"
    /\ run_id = 2
    /\ proto_idx = 2
    /\ resets = 2
    /\ pc = "run"
    /\ prompt_tokens > 10
    /\ completion_tokens > 5

----------------------------------------------------------------------------
(* Claims about the runner's rosters and result list *)

\* the number of agents each protocol's run requires
Arity(protocol) == IF protocol = "SingleCoTProtocol" THEN 1 ELSE 2

\* C29: each time run_experiment calls protocol.run for an item, the roster
\* is newly built, every agent of it has an empty turn log, and for the
\* four known protocols it has as many agents as the protocol requires (so
\* run raises no arity error); the roster is dropped when the call ends,
\* so no turn-log content passes from one question to the next.
C29_RosterIsFreshForEveryItem ==
    /\ [][(pc = "loop" /\ pc' = "run") =>
            /\ ppc' = "entry"
            /\ question' = data[idx].question
            /\ \A a \in 1..Len(agents') : agents'[a].memory = <<>>
            /\ protocol_class \in ProtocolNames =>
                  Len(agents') = Arity(protocol_class)]_vars
    /\ []((pc = "run" /\ protocol_class \in ProtocolNames) =>
            outcome # Raised(ArityError))
    /\ [](pc # "run" => agents = <<>>)

\* witness of C29: the first item's debate was recorded, and run is entered
\* for the second item with two agents whose logs are empty
C29_Witness ==
    /\ pc = "run"
    /\ ppc = "entry"
    /\ idx = 2
    /\ Len(results) = 1
    /\ ~IsError(results[1])
    /\ protocol_class = "SocraticDialogueProtocol"
    /\ Len(agents) = 2
    /\ \A a \in 1..2 : agents[a].memory = <<>>
    /\ loaded = <<>>

\* C30: result entries are immutable once appended.  While a run is under
\* way its result list only grows at the end, it starts as the list loaded
\* from the file, and every completed save writes exactly that list: so
\* the list of any save is a prefix of the list of every later save of the
\* run, and the loaded list is a prefix of every list persisted after it.
C30_PersistedListsOnlyGrow ==
    /\ [][/\ (pc # "stopped" /\ pc' # "stopped") => IsPrefix(results, results')
          /\ (pc = "stopped" /\ pc' # "stopped") => results' = loaded'
          /\ (pc \in {"dump", "final_dump"} /\ file' # file) =>
                /\ ResultsIn(file') = results
                /\ persisted' = results]_vars
    /\ [](pc # "stopped" => IsPrefix(loaded, results))

\* witness of C30: a run resumed from a file holding one entry, appended
\* the second item's entry behind it and saved both
C30_Witness ==
    /\ pc = "loop"
    /\ idx = 3
    /\ loaded = <<LegacyEntry>>
    /\ Len(persisted) = 2
    /\ persisted[1] = LegacyEntry
    /\ ResultsIn(file) = persisted

----------------------------------------------------------------------------
(* Claims about the British opening, any Opposition *)

\* a judgment call returns and the loop goes on without an interjection
QuietCheck ==
    /\ British
    /\ ppc = "opp_check_prompt"
    /\ pending # NoCall
    /\ ppc' = "for_token"

\* C31: in a British run, whatever the Opposition decides at each check: a
\* check without interruption adds no transcript turn; every interjection
\* turn is directly followed by exactly one Government response turn; the
\* returned interruption count is the number of interjection turns; and
\* the returned transcript has 4 + 2 x interruptions turns: the start
\* notice, the interjection/response pairs, the full speech, the rebuttal
\* and the final answer.
C31_BritishTranscriptShape ==
    /\ [][QuietCheck => transcript' = transcript]_vars
    /\ [](British =>
            \A k \in 1..Len(transcript) :
                /\ IsInterjection(transcript[k]) =>
                      \/ k = Len(transcript) /\ ppc \in {"gov_address_prompt", "raised"}
                      \/ /\ k < Len(transcript)
                         /\ IsGovResponse(transcript[k + 1])
                         /\ transcript[k + 1].role = agents[1].name
                /\ IsGovResponse(transcript[k]) =>
                      k > 1 /\ IsInterjection(transcript[k - 1]))
    /\ []((British /\ ppc = "returned") =>
            LET t == outcome.value.transcript
                n == outcome.value.interruptions
            IN  /\ t = transcript
                /\ n = Cardinality(TurnsWhere(IsInterjection))
                /\ n = Cardinality(TurnsWhere(IsGovResponse))
                /\ Len(t) = 4 + 2 * n
                /\ t[1].role = "System"
                /\ \A k \in 1..n : IsInterjection(t[2 * k])
                /\ IsFullSpeech(t[Len(t) - 2])
                /\ t[Len(t) - 1] = Turn(agents[2].name, loc.opp_response)
                /\ t[Len(t)].role = agents[1].name)

\* witness of C31: of two checks the Opposition interrupted at one, and
\* the run returned six turns
C31_Witness ==
    /\ British
    /\ ppc = "returned"
    /\ backend["opp_check_prompt"] = Replies
    /\ Cardinality(CheckCalls) = 2
    /\ outcome.value.interruptions = 1
    /\ Len(outcome.value.transcript) = 6
    /\ IsInterjection(transcript[2])
    /\ IsGovResponse(transcript[3])

\* a judgment call or an interjection-response call is due or outstanding
AtCheck == ppc \in {"opp_check_prompt", "gov_address_prompt"}

\* C32: during the British opening the stream, the judgment calls and the
\* interjection-response calls take turns: while a judgment or response
\* call is due or outstanding no fragment is requested or delivered, a
\* fragment is requested only when no call is outstanding, and a backend
\* interaction begins only when none is in progress.
C32_OpeningIsInterleavedSynchronously ==
    [][British =>
          /\ AtCheck =>
                /\ yielded' = yielded
                /\ loc'.script = loc.script
                /\ pending'.method # "next"
          /\ yielded' # yielded =>
                /\ pending.method = "next"
                /\ pending' = NoCall
          /\ pending' # pending => (pending = NoCall \/ pending' = NoCall)]_vars

\* witness of C32: an interjection-response call is outstanding after the
\* first fragment, and the rest of the stream has not been pulled
C32_Witness ==
    /\ British
    /\ ppc = "gov_address_prompt"
    /\ pending.method = "generate"
    /\ Len(yielded) = 1
    /\ loc.script # <<>>

----------------------------------------------------------------------------
(* Claims about resuming and the saved counts *)

\* the file is one run_experiment resumes from: a dict with a result list
ResumableDict(f) ==
    /\ f.exists
    /\ f.decodable
    /\ f.json.type = "dict"
    /\ "results" \in DOMAIN f.json.members

\* the count the file stores under key, 0 when it stores none
StoredCount(f, key) ==
    IF ResumableDict(f) /\ "metadata" \in DOMAIN f.json.members
    THEN Get(f.json.members.metadata, key, 0)
    ELSE 0

IsCorrect(r) == Get(r, "is_correct", FALSE) = TRUE

RunBegins == pc = "stopped" /\ pc' = "loop"
InRun == pc # "stopped" /\ pc' # "stopped"

\* C33: on resume both counts start from the values the file stores; from
\* then on total_count grows by one with every entry appended that is not
\* an error entry and correct_count by one with every entry appended that
\* is scored correct, neither changes otherwise, and the final save writes
\* the counts so reached.
C33_ResumedCountsExtendStoredCounts ==
    [][/\ RunBegins =>
             /\ total_count' = StoredCount(file, "total_count")
             /\ correct_count' = StoredCount(file, "correct_count")
       /\ (InRun /\ results' # results) =>
             LET entry == results'[Len(results')]
             IN  /\ results' = Append(results, entry)
                 /\ total_count' =
                       total_count + (IF NotError(entry) THEN 1 ELSE 0)
                 /\ correct_count' =
                       correct_count + (IF IsCorrect(entry) THEN 1 ELSE 0)
       /\ (InRun /\ results' = results) =>
             /\ total_count' = total_count
             /\ correct_count' = correct_count
       /\ (pc = "final_dump" /\ file' # file) =>
             /\ StoredCount(file', "total_count") = total_count
             /\ StoredCount(file', "correct_count") = correct_count]_vars

\* witness of C33: a run interrupted after its first save is resumed; the
\* counts started from the stored 1 and 1, and the second item, answered
\* wrongly, has been counted
C33_Witness ==
    /\ trail = <<"interrupted", "running">>
    /\ Len(loaded) = 1
    /\ pc = "save"
    /\ Len(results) = 2
    /\ total_count = 2
    /\ correct_count = 1

----------------------------------------------------------------------------
(* Claims about the driver's summary *)

\* a field of the metadata, 0 when the metadata has no such field
FieldOrZero(meta, key) == IF key \in DOMAIN meta THEN meta[key] ELSE 0

\* run_experiment has returned to main and the inner loop goes on
ProtocolFinished == dpc = "experiment" /\ dpc' = "proto_loop"

\* C34: in the driver, when a protocol of a top-level run has finished, the
\* run's summary gets for that protocol the accuracy and the prompt,
\* completion and total token counts of the metadata of the result file
\* just written (0 for a token count the metadata lacks); the summary file
\* is written only when all four protocols have finished, and holds the
\* four records.
C34_SummaryRecordsMetadataReadBack ==
    /\ [][ProtocolFinished =>
             LET meta == file.json.members.metadata
             IN  /\ trail = <<"done">>
                 /\ ResultsIn(file) = persisted
                 /\ summary_file' = summary_file
                 /\ run_summary' = Append(run_summary,
                       [proto_name |-> ProtocolKeys[proto_idx],
                        meta |->
                           [accuracy |-> meta.accuracy,
                            prompt_tokens |-> FieldOrZero(meta, "prompt_tokens"),
                            completion_tokens |->
                                FieldOrZero(meta, "completion_tokens"),
                            total_tokens |-> FieldOrZero(meta, "total_tokens")]])]_vars
    /\ [][(summary_file' # summary_file /\ summary_file'.exists) =>
             /\ proto_idx > Len(Protocols)
             /\ Len(run_summary) = Len(Protocols)
             /\ summary_file'.protocols = run_summary
             /\ summary_file'.run_id = run_id]_vars
    /\ [](summary_file.exists =>
             \A k \in 1..Len(Protocols) :
                 summary_file.protocols[k].proto_name = ProtocolKeys[k])

\* witness of C34: the first top-level run wrote its summary; the backend
\* reported tokens, the result files carry no token counts, and the
\* summary records accuracy 1/1 and 0 tokens for the first protocol
C34_Witness ==
    /\ summary_file.exists
    /\ summary_file.run_id = 1
    /\ prompt_tokens > 0
    /\ summary_file.protocols[1].meta.accuracy = <<1, 1>>
    /\ summary_file.protocols[1].meta.total_tokens = 0
    /\ summary_file.protocols[4].meta.accuracy = <<0, 1>>

\* C35: in every output file run_experiment writes, on a fresh run or on
\* resume from a legacy list or a metadata dict, metadata.total_count is
\* the number of result entries that are not error entries,
\* metadata.correct_count the number of entries with is_correct true,
\* correct_count <= total_count <= number of entries, and accuracy is
\* correct_count / total_count, or 0 when total_count is 0.
C35_SavedCountsMatchSavedEntries ==
    (file # file0 /\ ResumableDict(file)) =>
        LET rs == file.json.members.results
            meta == file.json.members.metadata
        IN  /\ meta.total_count = CountOf(rs, NotError)
            /\ meta.correct_count = CountOf(rs, IsCorrect)
            /\ meta.correct_count <= meta.total_count
            /\ meta.total_count <= Len(rs)
            /\ meta.accuracy = Accuracy(meta.correct_count, meta.total_count)

\* the error entries an earlier invocation had saved when it was
\* interrupted
ErrorsSavedEarlier ==
    {at_crash[k] : k \in {j \in 1..Len(at_crash) : IsError(at_crash[j])}}

\* C36: an item recorded as an error entry by an earlier invocation is not
\* retried by a later invocation on the same output path: the item is
\* skipped, no backend call is made for it, and its error entry stays in
\* the result list.
C36_ErrorEntriesAreNotRetried ==
    \A e \in ErrorsSavedEarlier :
        /\ pc = "run" => question # e.question
        /\ pc # "stopped" => \E k \in 1..Len(results) : results[k] = e

----------------------------------------------------------------------------
(* Claims about the Opposition's judgment text *)

\* the judgment text of the scripted Opposition
Decision == CHOOSE d \in backend["opp_check_prompt"] : TRUE

\* the places where INTERRUPT: begins in the text t
MarkerPlaces(t) ==
    {k \in 1..Len(t) :
        /\ k + Len(InterruptMarker) - 1 <= Len(t)
        /\ SubSeq(t, k, k + Len(InterruptMarker) - 1) = InterruptMarker}

\* the text after the first INTERRUPT: in t, without surrounding whitespace
ClaimedReason(t) ==
    LET first == CHOOSE k \in MarkerPlaces(t) :
                     \A j \in MarkerPlaces(t) : k <= j
    IN  Strip(SubSeq(t, first + Len(InterruptMarker), Len(t)), Whitespace)

\* the judgment call returns
Judged == ppc = "opp_check_prompt" /\ pending # NoCall /\ ppc' # "raised"

\* C37: at a check the Opposition's text counts as an interruption if and
\* only if INTERRUPT: occurs somewhere in it; the recorded reason is the
\* text after the first occurrence, stripped of surrounding whitespace;
\* any other text, NO or not, is no interruption: nothing is recorded and
\* the stream goes on.
C37_InterruptionIffMarkerOccurs ==
    [][Judged =>
          IF MarkerPlaces(Decision) # {}
          THEN /\ ppc' = "gov_address_prompt"
               /\ loc'.interruption_count = loc.interruption_count + 1
               /\ transcript' = Append(transcript,
                     Turn(agents[2].name,
                          <<"POI: ">> \o ClaimedReason(Decision)))
          ELSE /\ ppc' = "for_token"
               /\ loc'.interruption_count = loc.interruption_count
               /\ transcript' = transcript]_vars

\* witness of C37: the marker came after other text and twice; the reason
\* recorded is what followed its first occurrence
C37_Witness ==
    /\ Decision = <<"O", "I", ":", "I">>
    /\ ppc = "gov_address_prompt"
    /\ loc.interruption_count = 1
    /\ transcript[Len(transcript)].content = <<"POI: ", "I">>

----------------------------------------------------------------------------
(* Claims about a failing speak *)

\* a step in which the generate call of speak raises
SpeakRaises == pending.method = "generate" /\ ppc' = "raised"

\* C38: when the backend raises during speak, that error goes to the
\* caller, no second backend call is made, and the agent's turn log is as
\* it was before speak was called: sending the prompt appends nothing, and
\* the failure appends neither the context nor a response.
C38_FailedSpeakLeavesTurnLog ==
    [][/\ SpeakBegins => agents' = agents
       /\ SpeakRaises =>
             /\ agents' = agents
             /\ calls' = calls
             /\ pending' = NoCall
             /\ outcome' = Raised(BackendError)]_vars

\* witness of C38: in a Socratic run the call of Socrates raised; the
\* Student's log holds its first exchange and Socrates' log is empty
C38_Witness ==
    /\ protocol_class = "SocraticDialogueProtocol"
    /\ ppc = "raised"
    /\ outcome = Raised(BackendError)
    /\ Len(calls) = 2
    /\ calls[2].agent = 2
    /\ agents_in[2].memory = <<>>
    /\ agents[2].memory = <<>>
    /\ Len(agents[1].memory) = 2

----------------------------------------------------------------------------
(* Claims about runs with rounds <= 0 *)

\* the positions of a run inside the Socratic questioning loop and inside
\* the Congress rebuttal loop
LoopPositions ==
    {"socrates_prompt", "student_reply_prompt",
     "aff_rebuttal_prompt", "neg_rebuttal_prompt"}

\* C39: with rounds <= 0 a Socratic run never enters the questioning loop
\* and returns a transcript of exactly two Student turns (provisional and
\* final answer) after two backend calls; a Congress run never enters the
\* rebuttal loop and returns the three turns Affirmative, Negative,
\* Affirmative after three backend calls, as for rounds = 1. A run that has
\* not ended can always take a step and never makes more than three calls,
\* so it ends, and a returned run carries the final_answer extracted from
\* the last turn.
C39_NonPositiveRoundsSkipTheLoop ==
    (/\ protocol_class \in {"SocraticDialogueProtocol", "AmericanCongressProtocol"}
     /\ rounds <= 0) =>
        /\ ppc \notin LoopPositions
        /\ Len(calls) <= 3
        /\ ppc \notin {"returned", "raised"} => ENABLED ProtocolStep
        /\ (ppc = "returned" /\ protocol_class = "SocraticDialogueProtocol") =>
              /\ Len(transcript) = 2
              /\ OneCallPerTurn(<<1, 1>>)
              /\ calls[2].context.template = "summary_prompt"
        /\ (ppc = "returned" /\ protocol_class = "AmericanCongressProtocol") =>
              /\ Len(transcript) = 3
              /\ OneCallPerTurn(CongressSpeakers(1))
              /\ calls[3].context.template = "congress_final_prompt"
        /\ ppc = "returned" =>
              /\ outcome.value.transcript = transcript
              /\ outcome.value.final_answer =
                    ExtractFinalAnswer(transcript[Len(transcript)].content)

C39_Witness ==
    /\ protocol_class = "SocraticDialogueProtocol"
    /\ rounds = 0 - 1
    /\ ppc = "returned"
    /\ Len(transcript) = 2
    /\ Len(calls) = 2

====
